---- MODULE Spec2Model ----
(***************************************************************************)
(* Model of grizzly's testdata/keystore coordination                       *)
(* (src/grizzly/testdata/communication.py): the coordinator-side           *)
(* TestdataProducer (keystore engine, testdata engine, request dispatch)   *)
(* and the worker-side TestdataConsumer (correlation of replies).          *)
(***************************************************************************)
EXTENDS Integers, Sequences, FiniteSets, TLC

(***************************************************************************)
(* Bounds of the model.                                                    *)
(***************************************************************************)
\* number of requests handed to the keystore handler in one behaviour
MaxRequests == 3

(***************************************************************************)
(* Python values.  A value is a record [t, v]: t is the Python type, v the *)
(* payload.  A str is the sequence of its characters, so that isnumeric()  *)
(* and int() are computed and not assumed.                                 *)
(***************************************************************************)
None == [t |-> "NoneType", v |-> 0]
IntV(n) == [t |-> "int", v |-> n]
StrV(s) == [t |-> "str", v |-> s]
ListV(s) == [t |-> "list", v |-> s]

IsNone(x) == x.t = "NoneType"
IsInt(x) == x.t = "int"
IsStr(x) == x.t = "str"
IsList(x) == x.t = "list"

\* characters: the decimal digits convert with int(); "half" stands for the
\* character U+00BD, which str.isnumeric() accepts and int() rejects
Digits == {"0", "1", "2", "3", "4", "5", "6", "7", "8", "9"}
DigitValue == ("0" :> 0) @@ ("1" :> 1) @@ ("2" :> 2) @@ ("3" :> 3) @@ ("4" :> 4)
              @@ ("5" :> 5) @@ ("6" :> 6) @@ ("7" :> 7) @@ ("8" :> 8) @@ ("9" :> 9)
NumericChars == Digits \cup {"half"}

\* str.isnumeric(): at least one character and every character numeric
IsNumeric(s) == Len(s) > 0 /\ \A i \in 1..Len(s) : s[i] \in NumericChars

\* int(str) accepts a str of decimal digits (after isnumeric() held)
IntParses(s) == Len(s) > 0 /\ \A i \in 1..Len(s) : s[i] \in Digits

RECURSIVE IntOfStr(_)
IntOfStr(s) == IF Len(s) = 0 THEN 0
               ELSE 10 * IntOfStr(SubSeq(s, 1, Len(s) - 1)) + DigitValue[s[Len(s)]]

(***************************************************************************)
(* Python dicts: functions with a finite domain.                           *)
(***************************************************************************)
EmptyDict == <<>>

\* d.get(k, default)
DictGet(d, k, default) == IF k \in DOMAIN d THEN d[k] ELSE default

\* d.update(u)
DictUpdate(d, u) == [k \in DOMAIN d \cup DOMAIN u |-> IF k \in DOMAIN u THEN u[k] ELSE d[k]]

\* del d[k], for k in d
DictDel(d, k) == [x \in DOMAIN d \ {k} |-> d[x]]

(***************************************************************************)
(* The keystore handler, TestdataProducer._handle_request_keystore.        *)
(* Each branch yields [keystore, response, raised]: the keystore after the *)
(* branch, the response dict (the request dict itself, updated in place),  *)
(* and the exception that leaves the handler ("none" when it returns).     *)
(***************************************************************************)
Outcome(ks, response, raised) == [keystore |-> ks, response |-> response, raised |-> raised]

MsgNoKey == "key is not present in request"
MsgIncrement == "value cannot be incremented"
MsgNotList == "key is not a list, it has not been pushed to"
MsgRemove == "failed to remove key"
MsgUnknownAction == "received unknown keystore action"

\* mutant: a 'get' stores what it returns
KeystoreGetStores(ks, key, response) ==
    Outcome(DictUpdate(ks, key :> DictGet(ks, key, None)),
            DictUpdate(response, [data |-> DictGet(ks, key, None)]), "none")

\* action == 'get'
KeystoreGet(ks, key, response) ==
    Outcome(ks, DictUpdate(response, [data |-> DictGet(ks, key, None)]), "none")

\* mutant: the value is echoed but not stored
KeystoreSetMutant(ks, key, response) ==
    LET set_value == DictGet(response, "data", None)
    IN  Outcome(ks, DictUpdate(response, [data |-> set_value]), "none")

\* action == 'set'
KeystoreSet(ks, key, response) ==
    LET set_value == DictGet(response, "data", None)
    IN  Outcome(DictUpdate(ks, key :> set_value),
                DictUpdate(response, [data |-> set_value]), "none")

\* mutant: the new value is returned and not stored
KeystoreIncAddNotStored(ks, key, r1, n, step) ==
    IF IsInt(step)
    THEN Outcome(ks, DictUpdate(r1, [data |-> IntV(n + step.v)]), "none")
    ELSE Outcome(ks, r1, "TypeError")

\* inc_value + step, for an int inc_value: a TypeError unless step is an int
KeystoreIncAdd(ks, key, r1, n, step) ==
    IF IsInt(step)
    THEN Outcome(DictUpdate(ks, key :> IntV(n + step.v)),
                 DictUpdate(r1, [data |-> IntV(n + step.v)]), "none")
    ELSE Outcome(ks, r1, "TypeError")

\* mutant: an absent key counts from 1
KeystoreIncFromOne(ks, key, response) ==
    LET step == DictGet(response, "data", IntV(1))
        r1 == DictUpdate(response, [data |-> None])
        inc_value == DictGet(ks, key, IntV(1))
    IN  IF IsInt(inc_value)
        THEN KeystoreIncAdd(ks, key, r1, inc_value.v, step)
        ELSE IF IsStr(inc_value) /\ IsNumeric(inc_value.v)
        THEN IF IntParses(inc_value.v)
             THEN KeystoreIncAdd(ks, key, r1, IntOfStr(inc_value.v), step)
             ELSE Outcome(ks, r1, "ValueError")
        ELSE Outcome(ks, DictUpdate(r1, [error |-> MsgIncrement]), "none")

\* mutant: a value that cannot be incremented counts as 0
KeystoreIncLenient(ks, key, response) ==
    LET step == DictGet(response, "data", IntV(1))
        r1 == DictUpdate(response, [data |-> None])
        inc_value == DictGet(ks, key, IntV(0))
    IN  IF IsInt(inc_value)
        THEN KeystoreIncAdd(ks, key, r1, inc_value.v, step)
        ELSE IF IsStr(inc_value) /\ IsNumeric(inc_value.v)
        THEN IF IntParses(inc_value.v)
             THEN KeystoreIncAdd(ks, key, r1, IntOfStr(inc_value.v), step)
             ELSE Outcome(ks, r1, "ValueError")
        ELSE KeystoreIncAdd(ks, key, r1, 0, step)

\* action == 'inc'
KeystoreInc(ks, key, response) ==
    LET step == DictGet(response, "data", IntV(1))
        r1 == DictUpdate(response, [data |-> None])
        inc_value == DictGet(ks, key, IntV(0))
    IN  IF IsInt(inc_value)
        THEN KeystoreIncAdd(ks, key, r1, inc_value.v, step)
        ELSE IF IsStr(inc_value) /\ IsNumeric(inc_value.v)
        THEN IF IntParses(inc_value.v)
             THEN KeystoreIncAdd(ks, key, r1, IntOfStr(inc_value.v), step)
             ELSE Outcome(ks, r1, "ValueError")
        ELSE Outcome(ks, DictUpdate(r1, [error |-> MsgIncrement]), "none")

\* action == 'push'
KeystorePush(ks, key, response) ==
    LET push_value == DictGet(response, "data", None)
        ks1 == IF key \notin DOMAIN ks THEN DictUpdate(ks, key :> ListV(<<>>)) ELSE ks
    IN  IF IsList(ks1[key])
        THEN Outcome(DictUpdate(ks1, key :> ListV(Append(ks1[key].v, push_value))),
                     DictUpdate(response, [data |-> push_value]), "none")
        ELSE Outcome(ks1, response, "AttributeError")

\* mutant: list.pop() instead of list.pop(0)
KeystorePopLast(ks, key, response) ==
    LET r1 == DictUpdate(response, [data |-> None])
    IN  IF key \in DOMAIN ks /\ ~IsList(ks[key])
        THEN Outcome(ks, DictUpdate(DictUpdate(r1, [error |-> MsgNotList]), [data |-> None]), "none")
        ELSE IF key \notin DOMAIN ks \/ Len(ks[key].v) = 0
        THEN Outcome(ks, DictUpdate(r1, [data |-> None]), "none")
        ELSE Outcome(DictUpdate(ks, key :> ListV(SubSeq(ks[key].v, 1, Len(ks[key].v) - 1))),
                     DictUpdate(r1, [data |-> ks[key].v[Len(ks[key].v)]]), "none")

\* mutant: a value that is not a list is treated as a missing key
KeystorePopQuiet(ks, key, response) ==
    LET r1 == DictUpdate(response, [data |-> None])
    IN  IF key \notin DOMAIN ks \/ ~IsList(ks[key]) \/ Len(ks[key].v) = 0
        THEN Outcome(ks, DictUpdate(r1, [data |-> None]), "none")
        ELSE Outcome(DictUpdate(ks, key :> ListV(Tail(ks[key].v))),
                     DictUpdate(r1, [data |-> Head(ks[key].v)]), "none")

\* action == 'pop'
KeystorePop(ks, key, response) ==
    LET r1 == DictUpdate(response, [data |-> None])
    IN  IF key \in DOMAIN ks /\ ~IsList(ks[key])
        THEN Outcome(ks, DictUpdate(DictUpdate(r1, [error |-> MsgNotList]), [data |-> None]), "none")
        ELSE IF key \notin DOMAIN ks \/ Len(ks[key].v) = 0
        THEN Outcome(ks, DictUpdate(r1, [data |-> None]), "none")
        ELSE Outcome(DictUpdate(ks, key :> ListV(Tail(ks[key].v))),
                     DictUpdate(r1, [data |-> Head(ks[key].v)]), "none")

\* mutant: the key is not removed
KeystoreDelKeeps(ks, key, response) ==
    LET r1 == DictUpdate(response, [data |-> None])
    IN  IF key \in DOMAIN ks
        THEN Outcome(ks, r1, "none")
        ELSE Outcome(ks, DictUpdate(r1, [error |-> MsgRemove]), "none")

\* action == 'del'
KeystoreDel(ks, key, response) ==
    LET r1 == DictUpdate(response, [data |-> None])
    IN  IF key \in DOMAIN ks
        THEN Outcome(DictDel(ks, key), r1, "none")
        ELSE Outcome(ks, DictUpdate(r1, [error |-> MsgRemove]), "none")

\* any other action
KeystoreUnknown(ks, key, response) ==
    Outcome(ks, DictUpdate(response, [data |-> None, error |-> MsgUnknownAction]), "none")

\* mutant: the action is looked at before the key
HandleRequestKeystoreActionFirst(ks, request) ==
    IF DictGet(request, "action", "") \notin {"get", "set", "inc", "push", "pop", "del"}
    THEN KeystoreUnknown(ks, "", request)
    ELSE IF "key" \notin DOMAIN request
    THEN Outcome(ks, DictUpdate(request, [data |-> None, error |-> MsgNoKey]), "none")
    ELSE KeystoreGet(ks, request["key"], request)

\* _handle_request_keystore(request=request)
HandleRequestKeystore(ks, request) ==
    IF "key" \notin DOMAIN request
    THEN Outcome(ks, DictUpdate(request, [data |-> None, error |-> MsgNoKey]), "none")
    ELSE LET key == request["key"]
             action == DictGet(request, "action", "")
         IN  CASE action = "get" -> KeystoreGet(ks, key, request)
               [] action = "set" -> KeystoreSet(ks, key, request)
               [] action = "inc" -> KeystoreInc(ks, key, request)
               [] action = "push" -> KeystorePush(ks, key, request)
               [] action = "pop" -> KeystorePop(ks, key, request)
               [] action = "del" -> KeystoreDel(ks, key, request)
               [] OTHER -> KeystoreUnknown(ks, key, request)

(***************************************************************************)
(* The testdata engine, TestdataProducer._handle_request_testdata.         *)
(*                                                                         *)
(* A variable key is the sequence of its dot-separated parts.  A variable  *)
(* is a literal value or a generator object; what reading a generator      *)
(* (variable[variable_name]) yields is an input of the request: a value,   *)
(* None, or NotImplementedError.                                           *)
(***************************************************************************)
DictV(d) == [t |-> "dict", v |-> d]
IsDict(x) == x.t = "dict"

OnConsumer == StrV(<<"__on_consumer__">>)
Literal(value) == [kind |-> "literal", value |-> value, name |-> "", persist |-> FALSE]
Generator(name, persist) == [kind |-> "generator", value |-> None, name |-> name, persist |-> persist]

\* marks a read of a generator that raises NotImplementedError
NotImplementedError == [t |-> "<NotImplementedError>", v |-> 0]

\* what variable[variable_name] can yield, per generator: one of two rows
\* with both columns, a row with one, a number, None, NotImplementedError
ReadOutcomes ==
    ("input" :> {DictV(("col1" :> StrV(<<"x">>)) @@ ("col2" :> IntV(1))),
                 DictV(("col1" :> StrV(<<"y">>)) @@ ("col2" :> IntV(2))),
                 DictV("col1" :> StrV(<<"x">>)), None, NotImplementedError})
    @@ ("counter" :> {IntV(1), None})

\* scenario class names, their iteration bounds, their aliases
IterationsA == 2
ScenarioNames == {"ScenarioA", "ScenarioB"}
ScenarioIterations == ("ScenarioA" :> IterationsA) @@ ("ScenarioB" :> 0)
ScenarioAlias == ("ScenarioA" :> (<<"plain">> :> "alias")) @@ ("ScenarioB" :> EmptyDict)

\* self.testdata: per scenario, the variables in the order of the dict
Testdata ==
    ("ScenarioA" :> << [key |-> <<"AtomicCsvReader", "input", "col1">>, variable |-> Generator("input", FALSE)],
                       [key |-> <<"AtomicCsvReader", "input", "col2">>, variable |-> Generator("input", FALSE)],
                       [key |-> <<"AtomicIntegerIncrementer", "counter">>, variable |-> Generator("counter", TRUE)],
                       [key |-> <<"AtomicRandomString", "rnd">>, variable |-> Literal(OnConsumer)],
                       [key |-> <<"plain">>, variable |-> Literal(StrV(<<"a">>))] >>)
    @@ ("ScenarioB" :> << [key |-> <<"AtomicIntegerIncrementer", "counter">>, variable |-> Generator("counter", TRUE)],
                          [key |-> <<"plain">>, variable |-> Literal(IntV(2))] >>)

GeneratorNames == {"input", "counter"}

\* grizzly.scenarios.find_by_class_name: the scenario, or None
FindByClassName(name) == IF name \in ScenarioNames THEN name ELSE "<None>"

\* GrizzlyVariables.get_variable_spec(key): module, type, name of a dotted key
GetVariableSpec(key) ==
    IF Len(key) = 1
    THEN [module_name |-> "<None>", variable_type |-> "<None>", variable_name |-> key[1]]
    ELSE [module_name |-> "grizzly.testdata.variables", variable_type |-> key[1], variable_name |-> key[2]]

\* value[attribute]: the item of a dict; KeyError when it has none; TypeError
\* when value is None, an int or a str
Subscript(value, attribute) ==
    IF IsDict(value)
    THEN IF attribute \in DOMAIN value.v
         THEN [raised |-> "none", value |-> value.v[attribute]]
         ELSE [raised |-> "KeyError", value |-> None]
    ELSE [raised |-> "TypeError", value |-> None]

\* the state of the loop over testdata.items(): data['variables'], the aliased
\* entries of data, loaded_variable_datatypes, the generators read so far, the
\* exception raised, and whether the loop hit its break
LoopStart == [variables |-> EmptyDict, aliased |-> EmptyDict, loaded |-> EmptyDict,
              reads |-> <<>>, raised |-> "none", broke |-> FALSE]

\* mutant: a None stops the response whether or not the scenario is tracked
StoreValueBreaksOnNone(acc, scenario, tracked, key, value) ==
    IF IsNone(value)
    THEN [acc EXCEPT !.broke = TRUE]
    ELSE [acc EXCEPT !.variables = DictUpdate(acc.variables, key :> value),
                     !.aliased = IF key \in DOMAIN ScenarioAlias[scenario]
                                 THEN DictUpdate(acc.aliased, ScenarioAlias[scenario][key] :> value)
                                 ELSE acc.aliased]

\* data['variables'][key] = value, and data[alias] = value when the key has an alias
StoreValue(acc, scenario, tracked, key, value) ==
    IF IsNone(value) /\ ~tracked
    THEN [acc EXCEPT !.broke = TRUE]
    ELSE [acc EXCEPT !.variables = DictUpdate(acc.variables, key :> value),
                     !.aliased = IF key \in DOMAIN ScenarioAlias[scenario]
                                 THEN DictUpdate(acc.aliased, ScenarioAlias[scenario][key] :> value)
                                 ELSE acc.aliased]

\* mutant: the generator is read again for every key
NotLoadedEver(loaded, testdata_type) == TRUE

\* testdata_type not in loaded_variable_datatypes
NotLoaded(loaded, testdata_type) == testdata_type \notin DOMAIN loaded

\* one turn of the loop, for the entry (key, variable)
MaterializeEntry(acc, scenario, tracked, entry, reads) ==
    LET key == entry.key
        variable == entry.variable
    IN  IF Len(key) > 1 /\ variable # Literal(OnConsumer)
        THEN LET spec == GetVariableSpec(key)
                 data_attribute == key[Len(key)]
                 read == reads[variable.name]
             IN  IF spec.variable_name # data_attribute
                 THEN LET testdata_type == <<spec.variable_type, spec.variable_name>>
                          fresh == NotLoaded(acc.loaded, testdata_type)
                      IN  IF fresh /\ read = NotImplementedError
                          THEN [acc EXCEPT !.reads = Append(acc.reads, variable.name)]
                          ELSE LET acc1 == IF fresh
                                           THEN [acc EXCEPT !.loaded = DictUpdate(acc.loaded, testdata_type :> read),
                                                            !.reads = Append(acc.reads, variable.name)]
                                           ELSE acc
                                   item == Subscript(acc1.loaded[testdata_type], data_attribute)
                               IN  IF item.raised # "none"
                                   THEN [acc1 EXCEPT !.raised = item.raised]
                                   ELSE StoreValue(acc1, scenario, tracked, key, item.value)
                 ELSE LET acc1 == [acc EXCEPT !.reads = Append(acc.reads, variable.name)]
                      IN  IF read = NotImplementedError
                          THEN acc1
                          ELSE StoreValue(acc1, scenario, tracked, key, read)
        ELSE StoreValue(acc, scenario, tracked, key, variable.value)

\* the loop: for key, variable in testdata.items()
RECURSIVE Materialize(_, _, _, _, _, _)
Materialize(acc, scenario, tracked, entries, i, reads) ==
    IF i > Len(entries) \/ acc.raised # "none" \/ acc.broke
    THEN acc
    ELSE Materialize(MaterializeEntry(acc, scenario, tracked, entries[i], reads),
                     scenario, tracked, entries, i + 1, reads)

StopResponse == [action |-> "stop"]

\* mutant: one request more than the iteration bound is served
IterationsReachedOffByOne(iterations, scenario_name, scenario) ==
    \/ ~(scenario_name \in DOMAIN iterations
            /\ iterations[scenario_name] <= ScenarioIterations[scenario])
    \/ scenario_name \notin DOMAIN iterations

\* mutant: the counter is not compared with scenario.iterations
IterationsReachedNever(iterations, scenario_name, scenario) ==
    scenario_name \notin DOMAIN iterations

\* the test that answers 'stop' before any variable is read: the scenario is
\* not tracked or its counter has reached scenario.iterations
IterationsReached(iterations, scenario_name, scenario) ==
    \/ ~(scenario_name \in DOMAIN iterations
            /\ iterations[scenario_name] < ScenarioIterations[scenario])
    \/ scenario_name \notin DOMAIN iterations

\* mutant: every scenario gets a counter
TracksAlways(scenario) == ScenarioIterations[scenario] >= 0

\* scenario.iterations > 0
Tracks(scenario) == ScenarioIterations[scenario] > 0

\* mutant: a 'consume' counts twice
NextIterationByTwo(iterations, scenario_name) ==
    [iterations EXCEPT ![scenario_name] = iterations[scenario_name] + 2]

\* self.scenarios_iteration[scenario_name] += 1
NextIteration(iterations, scenario_name) ==
    [iterations EXCEPT ![scenario_name] = iterations[scenario_name] + 1]

TestdataOutcome(iterations, response, raised, caught, reads) ==
    [iterations |-> iterations, response |-> response, raised |-> raised,
     caught |-> caught, reads |-> reads]

\* _handle_request_testdata(request=request); caught is the TypeError the
\* handler catches itself, raised the exception that leaves it
HandleRequestTestdata(iterations, request, reads) ==
    LET scenario_name == DictGet(request, "identifier", "")
        scenario == FindByClassName(scenario_name)
    IN  IF scenario = "<None>"
        THEN TestdataOutcome(iterations, StopResponse, "none", "none", <<>>)
        ELSE LET it1 == IF scenario_name \notin DOMAIN iterations /\ Tracks(scenario)
                        THEN DictUpdate(iterations, scenario_name :> 0)
                        ELSE iterations
                 tracked == scenario_name \in DOMAIN it1
             IN  IF IterationsReached(it1, scenario_name, scenario)
                 THEN TestdataOutcome(it1, StopResponse, "none", "none", <<>>)
                 ELSE LET acc == Materialize(LoopStart, scenario, tracked,
                                             DictGet(Testdata, scenario_name, <<>>), 1, reads)
                      IN  IF acc.raised = "TypeError"
                          THEN TestdataOutcome(it1, StopResponse, "none", "TypeError", acc.reads)
                          ELSE IF acc.raised # "none"
                          THEN TestdataOutcome(it1, EmptyDict, acc.raised, "none", acc.reads)
                          ELSE IF acc.broke
                          THEN TestdataOutcome(it1, [action |-> "stop", data |-> EmptyDict],
                                               "none", "none", acc.reads)
                          ELSE TestdataOutcome(
                                   NextIteration(it1, scenario_name),
                                   [action |-> "consume",
                                    data |-> DictUpdate([variables |-> acc.variables], acc.aliased)],
                                   "none", "none", acc.reads)

(***************************************************************************)
(* Request dispatch, TestdataProducer.handle_request, and persist_data.    *)
(***************************************************************************)
\* the dispatch on request['message']: the state after it, the response and
\* the exception that leaves handle_request before the reply is sent
HandleRequestOutcome(ks, iterations, req, reads) ==
    IF req["message"] = "keystore"
    THEN LET out == HandleRequestKeystore(ks, req)
         IN  [keystore |-> out.keystore, iterations |-> iterations, response |-> out.response,
              raised |-> out.raised, caught |-> "none", reads |-> <<>>]
    ELSE IF req["message"] = "testdata"
    THEN LET out == HandleRequestTestdata(iterations, req, reads)
         IN  [keystore |-> ks, iterations |-> out.iterations, response |-> out.response,
              raised |-> out.raised, caught |-> out.caught, reads |-> out.reads]
    ELSE [keystore |-> ks, iterations |-> iterations, response |-> EmptyDict,
          raised |-> "none", caught |-> "none", reads |-> <<>>]

\* runner.send_message('consume_testdata', {'uid': uid, 'response': response}, client_id=cid)
ConsumeTestdata(uid, cid, resp) ==
    [type |-> "consume_testdata", uid |-> uid, response |-> resp, client_id |-> cid]

NoMessage == [type |-> "<none>", uid |-> 0, response |-> EmptyDict, client_id |-> ""]

\* persist_data: the keys of a scenario whose variable is an AtomicVariablePersist
PersistableKeys(scenario) ==
    { Testdata[scenario][i].key : i \in { j \in 1..Len(Testdata[scenario]) :
          /\ Len(Testdata[scenario][j].key) > 1
          /\ Testdata[scenario][j].variable # Literal(OnConsumer)
          /\ Testdata[scenario][j].variable.persist } }

\* variables_state: per scenario the keys whose generate_initial_value did not
\* raise (generated), scenarios without any left out
VariablesState(generated) ==
    LET state == [sc \in ScenarioNames |-> PersistableKeys(sc) \cap generated]
    IN  [sc \in { x \in ScenarioNames : state[x] # {} } |-> state[sc]]

AllPersistableKeys == UNION { PersistableKeys(sc) : sc \in ScenarioNames }

(***************************************************************************)
(* State.                                                                  *)
(***************************************************************************)
VARIABLES
    keystore,     \* TestdataProducer.keystore
    request,      \* the request dict last passed to the handler
    response,     \* the response dict it returned (EmptyDict when it raised)
    raised,       \* the exception that left the handler, "none" when it returned
    handled,      \* number of requests handled so far
    lastSet,      \* history: per key, the value of the last 'set' not yet followed by a mutating request
    incRun,       \* history: per key, the run of consecutive inc(k, step) requests since k was absent
    fifo,         \* history: per key, the values pushed and not yet popped
    scenarios_iteration,  \* TestdataProducer.scenarios_iteration
    has_persisted,        \* TestdataProducer.has_persisted
    persist_file,         \* the content of TestdataProducer._persist_file, EmptyDict while not written
    message,      \* uid and cid of the message last handled by handle_request
    reply,        \* the message handle_request last sent
    replies,      \* history: number of messages handle_request has sent
    caught,       \* history: the TypeError the testdata handler caught in the last request
    served,       \* history: per scenario, the 'consume' responses since the counters were last reset
    advanced,     \* history: per generator, the number of values the last request read from it
    producer_semaphore,   \* the thread holding TestdataProducer.semaphore, or "free"
    threads,      \* per coordinator thread, its position in handle_request or on_test_stop and its message
    test_stops,   \* history: per test_stop event, the variable state it had and what persist_data did
    pc,           \* per caller, its position in TestdataConsumer._request
    semaphore,    \* per worker process, the caller holding TestdataConsumer.semaphore, or "free"
    responses,    \* per worker process, TestdataConsumer._responses: uid -> AsyncResult
    produce,      \* 'produce_testdata' messages on their way to the coordinator
    consume,      \* 'consume_testdata' messages on their way to a worker
    result,       \* per caller, how its last _request ended
    calls,        \* per caller, the number of _request calls it has made
    consumer_raised,  \* per worker process, the exception handle_response last raised
    pop,          \* per caller, its position in TestdataConsumer.keystore_pop and the locals of the call
    answers,      \* history: the replies the coordinator has sent, each with the request it answers
    operation,    \* history: per caller, the keystore operation it last called and its key
    tasks         \* per caller, the KeystoreTask it runs: its arguments, its position, what it did

keystoreVars == <<lastSet, incRun, fifo>>
producerVars == <<scenarios_iteration, has_persisted, persist_file, message, reply, replies, caught, served,
                  advanced, producer_semaphore, threads, test_stops>>
consumerVars == <<pc, semaphore, responses, produce, consume, result, calls, consumer_raised, pop, answers, operation, tasks>>
vars == <<keystore, request, response, raised, handled, lastSet, incRun, fifo,
          scenarios_iteration, has_persisted, persist_file, message, reply, replies, caught, served,
          advanced, producer_semaphore, threads, test_stops,
          pc, semaphore, responses, produce, consume, result, calls, consumer_raised, pop, answers, operation, tasks>>

(***************************************************************************)
(* Requests the keystore handler is given.                                 *)
(***************************************************************************)
Keys == {"k1", "k2"}
KeystoreActions == {"get", "set", "inc", "push", "pop", "del", "bogus"}
Identifier == "Scenario1"

\* values carried in the data field
DataValues == {IntV(2), StrV(<<"7">>), StrV(<<"a">>), StrV(<<"half">>), ListV(<<IntV(1)>>)}

\* marks a request that carries no data field
NoData == [t |-> "<no data>", v |-> 0]

WithField(d, present, name, value) == IF present THEN DictUpdate(d, name :> value) ELSE d

\* TestdataConsumer._keystore_request: {'message': 'keystore', **request}, with the identifier
KeystoreRequestsOf(actions, keys, values) ==
    { WithField(WithField([message |-> "keystore", identifier |-> Identifier, action |-> a],
                          k \in Keys, "key", k),
                d \in DataValues, "data", d) :
        a \in actions, k \in keys, d \in values }

\* every action on every key with every data value, and every action without a key
KeystoreRequests ==
    KeystoreRequestsOf(KeystoreActions, Keys, DataValues \cup {NoData})
    \cup KeystoreRequestsOf(KeystoreActions, {"<no key>"}, {NoData})

HasKey(req) == "key" \in DOMAIN req
IsAction(req, a) == "action" \in DOMAIN req /\ req["action"] = a
NoError(resp) == "error" \notin DOMAIN resp
HasError(resp) == "error" \in DOMAIN resp

(***************************************************************************)
(* History variables of the keystore handler (they observe, the handler   *)
(* never reads them).                                                      *)
(***************************************************************************)
NotSet == [t |-> "<not set>", v |-> 0]
NoRun == [n |-> 0, step |-> 0]
Untracked == [t |-> "<untracked>", v |-> 0]

MutatingActions == {"set", "inc", "push", "pop", "del"}

NextLastSet(req) ==
    IF HasKey(req) /\ req["action"] \in MutatingActions
    THEN [lastSet EXCEPT ![req["key"]] =
            IF req["action"] = "set" THEN DictGet(req, "data", None) ELSE NotSet]
    ELSE lastSet

\* the step of an inc request: the data field, 1 when there is none
StepOf(req) == DictGet(req, "data", IntV(1))

NextIncRun(req) ==
    IF ~HasKey(req) THEN incRun
    ELSE LET k == req["key"]
         IN  [incRun EXCEPT ![k] =
                IF req["action"] = "inc" /\ IsInt(StepOf(req))
                THEN IF k \notin DOMAIN keystore
                     THEN [n |-> 1, step |-> StepOf(req).v]
                     ELSE IF incRun[k].n > 0 /\ incRun[k].step = StepOf(req).v
                     THEN [n |-> incRun[k].n + 1, step |-> incRun[k].step]
                     ELSE NoRun
                ELSE NoRun]

NextFifo(req) ==
    IF ~HasKey(req) THEN fifo
    ELSE LET k == req["key"]
             a == req["action"]
             d == DictGet(req, "data", None)
         IN  [fifo EXCEPT ![k] =
                CASE a = "push" -> IF IsList(fifo[k]) THEN ListV(Append(fifo[k].v, d)) ELSE Untracked
                  [] a = "pop" -> IF IsList(fifo[k]) /\ Len(fifo[k].v) > 0
                                  THEN ListV(Tail(fifo[k].v)) ELSE fifo[k]
                  [] a = "del" -> ListV(<<>>)
                  [] a = "set" -> IF IsList(d) THEN d ELSE Untracked
                  [] a = "inc" -> Untracked
                  [] OTHER -> fifo[k]]

(***************************************************************************)
(* The worker side: callers (one per user), their worker process, the id() *)
(* of their user object and their scenario class.                          *)
(***************************************************************************)
Callers == {"c1", "c2", "c3"}
Workers == {"w1", "w2"}
\* runner.client_id of the caller's process
ClientId == ("c1" :> "w1") @@ ("c2" :> "w1") @@ ("c3" :> "w2")
\* id(self.scenario.user): unique within a process, not across processes
Uid == ("c1" :> 1) @@ ("c2" :> 2) @@ ("c3" :> 1)
\* self.identifier = scenario.__class__.__name__
IdentifierOf == ("c1" :> "ScenarioA") @@ ("c2" :> "ScenarioB") @@ ("c3" :> "ScenarioA")

\* AsyncResult(): not ready; from is history, the reply that set it
NoReply == [rid |-> <<"", 0>>, uid |-> 0, client_id |-> ""]
AsyncResult == [ready |-> FALSE, value |-> EmptyDict, from |-> NoReply]

NoResult == [kind |-> "none", response |-> EmptyDict, from |-> NoReply]

\* a caller that is not in keystore_pop; elapsed is perf_counter() - start in
\* ticks, outcome how the last call of keystore_pop ended
NotPopping == [pc |-> "idle", wait |-> -1, value |-> None, elapsed |-> 0, outcome |-> "none"]

NoOperation == [name |-> "", key |-> ""]

\* the value of a variable no task has set
Unset == [t |-> "<unset>", v |-> 0]
\* no task: position, the task's arguments, the value keystore_get returned
\* and whether the key was there, the operations called, the variable named
\* by action_context, the KEYS entries fired, how the task ended
NoTask == [pc |-> "idle", action |-> "", key |-> "", action_context |-> None, default_value |-> None,
           seen |-> None, existed |-> FALSE, called |-> <<>>, variable |-> Unset,
           fired |-> 0, outcome |-> "none"]

ConsumerInit ==
    /\ pc = [c \in Callers |-> "idle"]
    /\ semaphore = [w \in Workers |-> "free"]
    /\ responses = [w \in Workers |-> EmptyDict]
    /\ produce = {}
    /\ consume = {}
    /\ result = [c \in Callers |-> NoResult]
    /\ calls = [c \in Callers |-> 0]
    /\ consumer_raised = [w \in Workers |-> "none"]
    /\ pop = [c \in Callers |-> NotPopping]
    /\ answers = {}
    /\ operation = [c \in Callers |-> NoOperation]
    /\ tasks = [c \in Callers |-> NoTask]

(***************************************************************************)
(* SpecKeystore: requests handed to _handle_request_keystore one by one.   *)
(***************************************************************************)
\* the greenlets that run coordinator code: two that handle messages, one
\* that runs on_test_stop
Handlers == {"h1", "h2"}
Threads == Handlers \cup {"t"}
NoThread == [pc |-> "idle", caller |-> [uid |-> 0, cid |-> ""], request |-> EmptyDict]

InitKeystore ==
    /\ keystore = EmptyDict
    /\ request = EmptyDict
    /\ response = EmptyDict
    /\ raised = "none"
    /\ handled = 0
    /\ lastSet = [k \in Keys |-> NotSet]
    /\ incRun = [k \in Keys |-> NoRun]
    /\ fifo = [k \in Keys |-> ListV(<<>>)]
    /\ scenarios_iteration = EmptyDict
    /\ has_persisted = FALSE
    /\ persist_file = EmptyDict
    /\ message = [uid |-> 0, cid |-> ""]
    /\ reply = NoMessage
    /\ replies = 0
    /\ caught = "none"
    /\ served = [sc \in ScenarioNames |-> 0]
    /\ advanced = [g \in GeneratorNames |-> 0]
    /\ producer_semaphore = "free"
    /\ threads = [t \in Threads |-> NoThread]
    /\ test_stops = <<>>
    /\ ConsumerInit

KeystoreHandled(req) ==
    /\ handled < MaxRequests
    /\ \E out \in {HandleRequestKeystore(keystore, req)} :
           /\ keystore' = out.keystore
           /\ response' = IF out.raised = "none" THEN out.response ELSE EmptyDict
           /\ raised' = out.raised
    /\ request' = req
    /\ handled' = handled + 1
    /\ lastSet' = NextLastSet(req)
    /\ incRun' = NextIncRun(req)
    /\ fifo' = NextFifo(req)

KeystoreRequest(req) ==
    /\ KeystoreHandled(req)
    /\ UNCHANGED <<producerVars, consumerVars>>

NextKeystore == \E req \in KeystoreRequests : KeystoreRequest(req)

SpecKeystore == InitKeystore /\ [][NextKeystore]_vars

(***************************************************************************)
(* Claims about the keystore handler, checked under SpecKeystore.          *)
(***************************************************************************)
\* the last step handled request req (request' = req alone would also hold of
\* a repeated request; handled counts them)
Handles(a) == handled' = handled + 1 /\ HasKey(request') /\ IsAction(request', a)

\* C1: a 'get' of key k that follows a 'set' of (k, v), with no mutating
\* request on k handled in between (requests on other keys may be), returns
\* data equal to v.
C1_SetThenGet ==
    (HasKey(request) /\ IsAction(request, "get") /\ lastSet[request["key"]] # NotSet)
        => (raised = "none" /\ response["data"] = lastSet[request["key"]])

\* C1 witness: a get returned the list set under its key while the other key
\* was written in between or before.
C1_Witness ==
    /\ HasKey(request) /\ IsAction(request, "get")
    /\ lastSet[request["key"]] = ListV(<<IntV(1)>>)
    /\ response["data"] = ListV(<<IntV(1)>>)
    /\ Keys \ {request["key"]} \subseteq DOMAIN keystore
    /\ handled = 3

\* C2: n consecutive inc(k, step) requests on an initially absent key respond
\* step, 2*step, ..., n*step and leave the key holding n*step; the first
\* responds step (1 for the default step).
C2_IncFromAbsent ==
    \A k \in Keys : incRun[k].n > 0 =>
        /\ k \in DOMAIN keystore /\ keystore[k] = IntV(incRun[k].n * incRun[k].step)
        /\ (HasKey(request) /\ request["key"] = k) =>
              /\ raised = "none"
              /\ response["data"] = IntV(incRun[k].n * incRun[k].step)
              /\ ("data" \notin DOMAIN request /\ incRun[k].n = 1) => response["data"] = IntV(1)

\* C2 witness: three consecutive inc(k, 2) on an absent key, the third answered 6.
C2_Witness ==
    \E k \in Keys : incRun[k] = [n |-> 3, step |-> 2] /\ response["data"] = IntV(6)

\* the claim's "neither an integer nor a numeric string"
NotNumeric(x) ==
    /\ ~IsInt(x)
    /\ ~(IsStr(x) /\ Len(x.v) > 0 /\ \A i \in 1..Len(x.v) : x.v[i] \in NumericChars)

\* C3: an 'inc' on a key whose stored value is neither an integer nor a
\* numeric string returns a non-null error and null data, and leaves the
\* keystore as it was.
C3_IncNonNumeric ==
    [][(Handles("inc") /\ request'["key"] \in DOMAIN keystore
            /\ NotNumeric(keystore[request'["key"]]))
        => (/\ raised' = "none"
            /\ HasError(response') /\ response'["error"] = MsgIncrement
            /\ response'["data"] = None
            /\ keystore' = keystore)]_vars

\* C3 witness: an inc on a key holding "a" was answered with the error.
C3_Witness ==
    /\ HasKey(request) /\ IsAction(request, "inc")
    /\ HasError(response) /\ response["error"] = MsgIncrement
    /\ keystore[request["key"]] = StrV(<<"a">>)

\* C4: push/pop on one key is FIFO: with only push and pop requests on a key
\* that was absent or held a list, each pop returns the oldest pushed value
\* not yet popped, and a pop of an empty list or an absent key returns null
\* data with no error.
C4_Fifo ==
    [][(Handles("pop") /\ IsList(fifo[request'["key"]]))
        => (/\ raised' = "none"
            /\ NoError(response')
            /\ response'["data"] = IF Len(fifo[request'["key"]].v) = 0 THEN None
                                   ELSE Head(fifo[request'["key"]].v))]_vars

\* C4 witness: after push(k, 2) and push(k, "a") a pop returned 2 and "a" is left.
C4_Witness ==
    /\ HasKey(request) /\ IsAction(request, "pop")
    /\ response["data"] = IntV(2)
    /\ fifo[request["key"]] = ListV(<<StrV(<<"a">>)>>)
    /\ keystore[request["key"]] = ListV(<<StrV(<<"a">>)>>)

\* C5 (as claimed): a 'del' of an absent key returns null data and no error,
\* the keystore unchanged.
C5_DelAbsent ==
    [][(Handles("del") /\ request'["key"] \notin DOMAIN keystore)
        => (/\ raised' = "none"
            /\ response'["data"] = None
            /\ NoError(response')
            /\ keystore' = keystore)]_vars

\* C6: a 'del' of a present key removes exactly that key and responds null
\* data and no error; a 'get' of that key that follows returns null.
C6_DelPresent ==
    [][/\ (Handles("del") /\ request'["key"] \in DOMAIN keystore)
            => (/\ raised' = "none"
                /\ response'["data"] = None
                /\ NoError(response')
                /\ keystore' = DictDel(keystore, request'["key"]))
       /\ (Handles("get") /\ HasKey(request) /\ IsAction(request, "del")
            /\ request["key"] = request'["key"])
            => (raised' = "none" /\ response'["data"] = None)]_vars

\* C6 witness: a del of a present key was answered without error and the other
\* key is still there.
C6_Witness ==
    /\ HasKey(request) /\ IsAction(request, "del")
    /\ raised = "none" /\ NoError(response)
    /\ DOMAIN keystore = Keys \ {request["key"]}

\* C12: a 'pop' on a key that is present and does not hold a list returns
\* data null and a non-null error, and the stored value stays as it was.
C12_PopNonList ==
    [][(Handles("pop") /\ request'["key"] \in DOMAIN keystore
            /\ ~IsList(keystore[request'["key"]]))
        => (/\ raised' = "none"
            /\ response'["data"] = None
            /\ HasError(response') /\ response'["error"] = MsgNotList
            /\ keystore' = keystore)]_vars

\* C12 witness: a pop on a key holding the str "a" was answered with the error.
C12_Witness ==
    /\ HasKey(request) /\ IsAction(request, "pop")
    /\ request["key"] \in DOMAIN keystore
    /\ keystore[request["key"]] = StrV(<<"a">>)
    /\ HasError(response) /\ response["error"] = MsgNotList
    /\ response["data"] = None

\* C13: every keystore response carries an error field, null when the
\* request succeeded.
C13_ErrorFieldPresent ==
    (handled > 0 /\ raised = "none") => "error" \in DOMAIN response

(***************************************************************************)
(* SpecProducer: the coordinator.  Messages arrive in any order from any   *)
(* caller; handle_request handles one at a time under its lock.            *)
(***************************************************************************)
\* number of messages handle_request is given in one behaviour
MaxMessages == 3

\* (uid, cid) of the callers: a user of worker w1, a user of worker w2
CallerIds == {[uid |-> 1, cid |-> "w1"], [uid |-> 2, cid |-> "w2"]}

\* TestdataConsumer._testdata_request: {'message': 'testdata', 'identifier': ...}
TestdataRequests == { [message |-> "testdata", identifier |-> i] : i \in ScenarioNames \cup {"Unknown"} }

ProducerRequests ==
    KeystoreRequestsOf(KeystoreActions, {"k1"}, {StrV(<<"a">>), NoData})
    \cup KeystoreRequestsOf({"get", "bogus"}, {"<no key>"}, {NoData})
    \cup TestdataRequests
    \cup {[message |-> "bogus", identifier |-> Identifier]}

\* what the generators yield in one request; only a request whose handling
\* gets as far as reading a generator consumes them
NoReads == [g \in GeneratorNames |-> None]
ReadsGenerators(req) ==
    /\ req["message"] = "testdata"
    /\ HandleRequestTestdata(scenarios_iteration, req, NoReads).reads # <<>>
ReadsFor(req) ==
    IF ReadsGenerators(req)
    THEN { reads \in [GeneratorNames -> UNION { ReadOutcomes[g] : g \in GeneratorNames }] :
             \A g \in GeneratorNames : reads[g] \in ReadOutcomes[g] }
    ELSE {NoReads}

InitProducer == InitKeystore

\* the number of values the request has read from generator g: its reads
\* that did not raise NotImplementedError
ValuesRead(read_names, reads, g) ==
    Cardinality({ i \in 1..Len(read_names) : read_names[i] = g /\ reads[g] # NotImplementedError })

\* handle_request(environment, msg), the body of its with-block
HandleRequest(caller, req, reads) ==
    /\ \E out \in {HandleRequestOutcome(keystore, scenarios_iteration, req, reads)} :
           /\ keystore' = out.keystore
           /\ scenarios_iteration' = out.iterations
           /\ raised' = out.raised
           /\ caught' = out.caught
           /\ response' = IF out.raised = "none" THEN out.response ELSE EmptyDict
           /\ IF out.raised = "none"
              THEN /\ reply' = ConsumeTestdata(caller.uid, caller.cid, out.response)
                   /\ replies' = replies + 1
              ELSE UNCHANGED <<reply, replies>>
           /\ served' = IF out.raised = "none" /\ DictGet(out.response, "action", "") = "consume"
                        THEN [served EXCEPT ![req["identifier"]] = @ + 1]
                        ELSE served
           /\ advanced' = [g \in GeneratorNames |-> ValuesRead(out.reads, reads, g)]
    /\ request' = req
    /\ message' = caller
    /\ handled' = handled + 1
    /\ UNCHANGED <<has_persisted, persist_file, keystoreVars, producer_semaphore, test_stops>>

\* persist_data(): generated are the keys whose generate_initial_value did not
\* raise, written whether write_text succeeded
PersistData(generated, written) ==
    IF has_persisted
    THEN UNCHANGED <<has_persisted, persist_file>>
    ELSE LET variables_state == VariablesState(generated)
         IN  IF DOMAIN variables_state # {} /\ written
             THEN persist_file' = variables_state /\ has_persisted' = TRUE
             ELSE UNCHANGED <<has_persisted, persist_file>>

\* persist_data() gets as far as write_text
AttemptsWrite(generated) == ~has_persisted /\ DOMAIN VariablesState(generated) # {}

\* on_test_stop()
OnTestStop(generated, written) ==
    /\ PersistData(generated, written)
    /\ scenarios_iteration' = [sc \in DOMAIN scenarios_iteration |-> 0]
    /\ served' = [sc \in ScenarioNames |-> 0]
    /\ UNCHANGED <<keystore, request, response, raised, handled, keystoreVars,
                   message, reply, replies, caught, advanced, producer_semaphore, consumerVars>>

\* stop()
Stop(generated, written) ==
    /\ PersistData(generated, written)
    /\ UNCHANGED <<keystore, request, response, raised, handled, keystoreVars,
                   scenarios_iteration, message, reply, replies, caught, served,
                   advanced, producer_semaphore, consumerVars>>

\* a message arrives at the coordinator
Receive(caller, req, reads) ==
    /\ handled < MaxMessages
    /\ HandleRequest(caller, req, reads)
    /\ UNCHANGED <<threads, consumerVars>>

NextProducer ==
    \/ \E caller \in CallerIds, req \in ProducerRequests : \E reads \in ReadsFor(req) :
          Receive(caller, req, reads)
    \/ \E generated \in SUBSET AllPersistableKeys, written \in BOOLEAN :
          OnTestStop(generated, written) /\ UNCHANGED <<threads, test_stops>>
    \/ \E generated \in SUBSET AllPersistableKeys, written \in BOOLEAN :
          Stop(generated, written) /\ UNCHANGED <<threads, test_stops>>

SpecProducer == InitProducer /\ [][NextProducer]_vars

(***************************************************************************)
(* SpecPersist: test_stop events, calls of stop() and testdata requests,   *)
(* with a record of every test_stop event.                                 *)
(***************************************************************************)
MaxTestStops == 2

\* the test_stop event fires on_test_stop()
TestStopEvent(generated, written) ==
    /\ Len(test_stops) < MaxTestStops
    /\ OnTestStop(generated, written)
    /\ test_stops' = Append(test_stops,
                            [state |-> VariablesState(generated),
                             failed |-> AttemptsWrite(generated) /\ ~written,
                             written |-> AttemptsWrite(generated) /\ written])
    /\ UNCHANGED threads

NextPersist ==
    \/ \E caller \in CallerIds, req \in TestdataRequests : \E reads \in ReadsFor(req) :
          Receive(caller, req, reads)
    \/ \E generated \in SUBSET AllPersistableKeys, written \in BOOLEAN :
          TestStopEvent(generated, written)
    \/ \E generated \in SUBSET AllPersistableKeys, written \in BOOLEAN :
          Stop(generated, written) /\ UNCHANGED <<threads, test_stops>>

SpecPersist == InitProducer /\ [][NextPersist]_vars

(***************************************************************************)
(* SpecLock: the coordinator's greenlets.  A greenlet can be switched out  *)
(* where it blocks on the semaphore and where it sends, so handle_request  *)
(* is the steps: the message arrives, the with-block is entered, its body  *)
(* runs up to and including send_message, the with-block is left.          *)
(***************************************************************************)
LockRequests ==
    { [message |-> "testdata", identifier |-> "ScenarioA"],
      [message |-> "keystore", identifier |-> "ScenarioA", action |-> "inc", key |-> "k1"] }

InWithBlock(t) == threads[t].pc \in {"locked", "done"}

\* the runner calls handle_request(environment, msg) in greenlet h
Arrive(h, caller, req) ==
    /\ threads[h].pc = "idle"
    /\ handled + Cardinality({ x \in Handlers : threads[x].pc \in {"arrived", "locked"} }) < MaxMessages
    /\ threads' = [threads EXCEPT ![h] = [pc |-> "arrived", caller |-> caller, request |-> req]]
    /\ UNCHANGED <<keystore, request, response, raised, handled, keystoreVars, consumerVars>>
    /\ UNCHANGED <<scenarios_iteration, has_persisted, persist_file, message, reply, replies,
                   caught, served, advanced, producer_semaphore, test_stops>>

\* the test_stop event calls on_test_stop() in greenlet t
TestStop(t) ==
    /\ threads[t].pc = "idle"
    /\ threads' = [threads EXCEPT ![t].pc = "arrived"]
    /\ UNCHANGED <<keystore, request, response, raised, handled, keystoreVars, consumerVars>>
    /\ UNCHANGED <<scenarios_iteration, has_persisted, persist_file, message, reply, replies,
                   caught, served, advanced, producer_semaphore, test_stops>>

\* mutant: the with-block is entered whoever holds the semaphore
AcquireUnguarded(t) ==
    /\ threads[t].pc = "arrived"
    /\ producer_semaphore' = t
    /\ threads' = [threads EXCEPT ![t].pc = "locked"]
    /\ UNCHANGED <<keystore, request, response, raised, handled, keystoreVars, consumerVars>>
    /\ UNCHANGED <<scenarios_iteration, has_persisted, persist_file, message, reply, replies,
                   caught, served, advanced, test_stops>>

\* mutant: TestdataProducer and TestdataConsumer share one Semaphore, so the
\* with-block is entered only when no caller of the process is in _request
AcquireSameSemaphore(t) ==
    /\ threads[t].pc = "arrived"
    /\ producer_semaphore = "free"
    /\ \A w \in Workers : semaphore[w] = "free"
    /\ producer_semaphore' = t
    /\ threads' = [threads EXCEPT ![t].pc = "locked"]
    /\ UNCHANGED <<keystore, request, response, raised, handled, keystoreVars, consumerVars>>
    /\ UNCHANGED <<scenarios_iteration, has_persisted, persist_file, message, reply, replies,
                   caught, served, advanced, test_stops>>

\* with self.semaphore: entered when the semaphore is free
Acquire(t) ==
    /\ threads[t].pc = "arrived"
    /\ producer_semaphore = "free"
    /\ producer_semaphore' = t
    /\ threads' = [threads EXCEPT ![t].pc = "locked"]
    /\ UNCHANGED <<keystore, request, response, raised, handled, keystoreVars, consumerVars>>
    /\ UNCHANGED <<scenarios_iteration, has_persisted, persist_file, message, reply, replies,
                   caught, served, advanced, test_stops>>

\* the body of handle_request's with-block in greenlet h
HandleBody(h, reads) ==
    /\ threads[h].pc = "locked"
    /\ HandleRequest(threads[h].caller, threads[h].request, reads)
    /\ threads' = [threads EXCEPT ![h].pc = "done"]
    /\ UNCHANGED consumerVars

\* the body of on_test_stop's with-block in greenlet t
TestStopBody(t, generated, written) ==
    /\ threads[t].pc = "locked"
    /\ OnTestStop(generated, written)
    /\ threads' = [threads EXCEPT ![t].pc = "done"]
    /\ UNCHANGED test_stops

\* the with-block is left, by return or by exception
Release(t) ==
    /\ threads[t].pc = "done"
    /\ producer_semaphore' = "free"
    /\ threads' = [threads EXCEPT ![t] = NoThread]
    /\ UNCHANGED <<keystore, request, response, raised, handled, keystoreVars, consumerVars>>
    /\ UNCHANGED <<scenarios_iteration, has_persisted, persist_file, message, reply, replies,
                   caught, served, advanced, test_stops>>

NextLock ==
    \/ \E h \in Handlers, caller \in CallerIds, req \in LockRequests : Arrive(h, caller, req)
    \/ TestStop("t")
    \/ \E t \in Threads : Acquire(t)
    \/ \E h \in Handlers :
          /\ threads[h].pc = "locked"
          /\ \E reads \in ReadsFor(threads[h].request) : HandleBody(h, reads)
    \/ \E generated \in SUBSET AllPersistableKeys, written \in BOOLEAN :
          TestStopBody("t", generated, written)
    \/ \E t \in Threads : Release(t)

SpecLock == InitProducer /\ [][NextLock]_vars

(***************************************************************************)
(* Spec: workers and coordinator.  Every caller runs _request; messages    *)
(* are delivered in any order; the coordinator handles them one at a time. *)
(***************************************************************************)
\* number of _request calls in one behaviour, all callers together
MaxCalls == 3

\* the requests a caller makes through _keystore_request: every caller
\* keystore_inc("k1", 1), c3 also keystore_push("k1", "a")
ConsumerRequests(c) ==
    { [message |-> "keystore", identifier |-> IdentifierOf[c], action |-> "inc",
       key |-> "k1", data |-> IntV(1)] }
    \cup
    IF c = "c3"
    THEN { [message |-> "keystore", identifier |-> IdentifierOf[c], action |-> "push",
            key |-> "k1", data |-> StrV(<<"a">>)] }
    ELSE {}

\* runner.send_message('produce_testdata', {'uid': uid, 'cid': cid, 'request': request});
\* rid is history: the caller and the number of its call
ProduceTestdata(c, req, rid) ==
    [type |-> "produce_testdata", uid |-> Uid[c], cid |-> ClientId[c], request |-> req, rid |-> rid]

Init == InitKeystore

\* _request, up to the wait: take the lock, register an AsyncResult under
\* the uid (replacing one that is there), send the request
RequestSend(c, req) ==
    /\ pc[c] = "idle"
    /\ calls["c1"] + calls["c2"] + calls["c3"] < MaxCalls
    /\ semaphore[ClientId[c]] = "free"
    /\ semaphore' = [semaphore EXCEPT ![ClientId[c]] = c]
    /\ responses' = [responses EXCEPT ![ClientId[c]] = DictUpdate(@, Uid[c] :> AsyncResult)]
    /\ produce' = produce \cup {ProduceTestdata(c, req, <<c, calls[c] + 1>>)}
    /\ pc' = [pc EXCEPT ![c] = "waiting"]
    /\ calls' = [calls EXCEPT ![c] = @ + 1]
    /\ UNCHANGED <<consume, result, consumer_raised>>
    /\ UNCHANGED <<keystore, request, response, raised, handled, keystoreVars, producerVars, tasks, answers>>

\* mutant: the lock is kept when _request returns
RequestReturnKeepsLock(c) ==
    /\ pc[c] = "waiting"
    /\ responses[ClientId[c]][Uid[c]].ready
    /\ result' = [result EXCEPT ![c] = [kind |-> "returned",
                                        response |-> responses[ClientId[c]][Uid[c]].value,
                                        from |-> responses[ClientId[c]][Uid[c]].from]]
    /\ responses' = [responses EXCEPT ![ClientId[c]] = DictDel(@, Uid[c])]
    /\ pc' = [pc EXCEPT ![c] = "idle"]
    /\ UNCHANGED <<semaphore, produce, consume, calls, consumer_raised>>
    /\ UNCHANGED <<keystore, request, response, raised, handled, keystoreVars, producerVars, tasks, answers>>

\* _request, the wait ends with the value: return it; finally: remove the
\* entry, release the lock
RequestReturn(c) ==
    /\ pc[c] = "waiting"
    /\ responses[ClientId[c]][Uid[c]].ready
    /\ result' = [result EXCEPT ![c] = [kind |-> "returned",
                                        response |-> responses[ClientId[c]][Uid[c]].value,
                                        from |-> responses[ClientId[c]][Uid[c]].from]]
    /\ responses' = [responses EXCEPT ![ClientId[c]] = DictDel(@, Uid[c])]
    /\ semaphore' = [semaphore EXCEPT ![ClientId[c]] = "free"]
    /\ pc' = [pc EXCEPT ![c] = "idle"]
    /\ UNCHANGED <<produce, consume, calls, consumer_raised>>
    /\ UNCHANGED <<keystore, request, response, raised, handled, keystoreVars, producerVars, tasks, answers>>

\* mutant: get() without a timeout, the wait ends only with the value
RequestWaitsForever(c) ==
    /\ pc[c] = "waiting"
    /\ FALSE
    /\ UNCHANGED vars

\* mutant: the timeout leaves the entry in the registry
RequestTimeoutKeepsEntry(c) ==
    /\ pc[c] = "waiting"
    /\ ~responses[ClientId[c]][Uid[c]].ready
    /\ result' = [result EXCEPT ![c] = [kind |-> "timeout", response |-> EmptyDict, from |-> NoReply]]
    /\ semaphore' = [semaphore EXCEPT ![ClientId[c]] = "free"]
    /\ pc' = [pc EXCEPT ![c] = "idle"]
    /\ UNCHANGED <<responses, produce, consume, calls, consumer_raised>>
    /\ UNCHANGED <<keystore, request, response, raised, handled, keystoreVars, producerVars, tasks, answers>>

\* _request, the wait ends with the timeout: AsyncResult.get raises; finally:
\* remove the entry, release the lock
RequestTimeout(c) ==
    /\ pc[c] = "waiting"
    /\ ~responses[ClientId[c]][Uid[c]].ready
    /\ result' = [result EXCEPT ![c] = [kind |-> "timeout", response |-> EmptyDict, from |-> NoReply]]
    /\ responses' = [responses EXCEPT ![ClientId[c]] = DictDel(@, Uid[c])]
    /\ semaphore' = [semaphore EXCEPT ![ClientId[c]] = "free"]
    /\ pc' = [pc EXCEPT ![c] = "idle"]
    /\ UNCHANGED <<produce, consume, calls, consumer_raised>>
    /\ UNCHANGED <<keystore, request, response, raised, handled, keystoreVars, producerVars, tasks, answers>>

\* mutant: the reply resolves whatever is pending
ResolveAnyPending(registry, msg) ==
    IF DOMAIN registry # {}
    THEN [registry |-> [u \in DOMAIN registry |->
                          [ready |-> TRUE, value |-> msg.response,
                           from |-> [rid |-> msg.rid, uid |-> msg.uid, client_id |-> msg.client_id]]],
          raised |-> "none"]
    ELSE [registry |-> registry, raised |-> "KeyError"]

\* cls._responses[uid].set(response): the registry after it, and the KeyError
\* of the lookup when the uid is not registered
Resolve(registry, msg) ==
    IF msg.uid \in DOMAIN registry
    THEN [registry |-> DictUpdate(registry, msg.uid :>
                          [ready |-> TRUE, value |-> msg.response,
                           from |-> [rid |-> msg.rid, uid |-> msg.uid, client_id |-> msg.client_id]]),
          raised |-> "none"]
    ELSE [registry |-> registry, raised |-> "KeyError"]

\* handle_response(environment, msg), in the worker the message is sent to
HandleResponse(msg) ==
    /\ msg \in consume
    /\ consume' = consume \ {msg}
    /\ LET out == Resolve(responses[msg.client_id], msg)
       IN  /\ responses' = [responses EXCEPT ![msg.client_id] = out.registry]
           /\ consumer_raised' = [consumer_raised EXCEPT ![msg.client_id] = out.raised]
    /\ UNCHANGED <<pc, semaphore, produce, result, calls, pop, operation>>
    /\ UNCHANGED <<keystore, request, response, raised, handled, keystoreVars, producerVars, tasks, answers>>

\* the coordinator's handle_request for a message on its way; the reply
\* carries the history of the request it answers
Handle(msg, reads) ==
    /\ msg \in produce
    /\ HandleRequest([uid |-> msg.uid, cid |-> msg.cid], msg.request, reads)
    /\ produce' = produce \ {msg}
    /\ consume' = IF raised' = "none"
                  THEN consume \cup {[type |-> reply'.type, uid |-> reply'.uid,
                                      response |-> reply'.response,
                                      client_id |-> reply'.client_id, rid |-> msg.rid]}
                  ELSE consume
    /\ answers' = IF raised' = "none"
                  THEN answers \cup {[rid |-> msg.rid, request |-> msg.request,
                                      response |-> reply'.response]}
                  ELSE answers
    /\ UNCHANGED <<pc, semaphore, responses, result, calls, consumer_raised, pop, operation, threads, tasks>>

\* the caller's own code between its calls of _request leaves pop alone
Next ==
    \/ \E c \in Callers : \E req \in ConsumerRequests(c) : RequestSend(c, req) /\ UNCHANGED <<pop, operation>>
    \/ \E c \in Callers : RequestReturn(c) /\ UNCHANGED <<pop, operation>>
    \/ \E c \in Callers : RequestTimeout(c) /\ UNCHANGED <<pop, operation>>
    \/ \E msg \in consume : HandleResponse(msg)
    \/ \E msg \in produce : \E reads \in ReadsFor(msg.request) : Handle(msg, reads)

Spec == Init /\ [][Next]_vars

(***************************************************************************)
(* SpecSend: Spec, where runner.send_message can raise.  The local runner  *)
(* calls handle_request inside send_message, so what handle_request raises *)
(* comes out of send_message; a worker's send fails when the socket does.  *)
(***************************************************************************)
\* _request, send_message raises: the entry is registered, nothing is sent,
\* the try block is never entered so its finally does not run, and the
\* with-block is left by the exception
RequestSendRaises(c, req) ==
    /\ pc[c] = "idle"
    /\ calls["c1"] + calls["c2"] + calls["c3"] < MaxCalls
    /\ semaphore[ClientId[c]] = "free"
    /\ responses' = [responses EXCEPT ![ClientId[c]] = DictUpdate(@, Uid[c] :> AsyncResult)]
    /\ result' = [result EXCEPT ![c] = [kind |-> "raised", response |-> EmptyDict, from |-> NoReply]]
    /\ calls' = [calls EXCEPT ![c] = @ + 1]
    /\ UNCHANGED <<pc, semaphore, produce, consume, consumer_raised>>
    /\ UNCHANGED <<keystore, request, response, raised, handled, keystoreVars, producerVars, tasks, answers>>

NextSend ==
    \/ \E c \in Callers : \E req \in ConsumerRequests(c) : RequestSend(c, req) /\ UNCHANGED <<pop, operation>>
    \/ \E c \in Callers : \E req \in ConsumerRequests(c) : RequestSendRaises(c, req) /\ UNCHANGED <<pop, operation>>
    \/ \E c \in Callers : RequestReturn(c) /\ UNCHANGED <<pop, operation>>
    \/ \E c \in Callers : RequestTimeout(c) /\ UNCHANGED <<pop, operation>>
    \/ \E msg \in consume : HandleResponse(msg)
    \/ \E msg \in produce : \E reads \in ReadsFor(msg.request) : Handle(msg, reads)

SpecSend == Init /\ [][NextSend]_vars

(***************************************************************************)
(* SpecLocal: the local runner.  Callers and coordinator are greenlets of  *)
(* one process: a caller sends while it holds TestdataConsumer.semaphore,  *)
(* handle_request takes TestdataProducer.semaphore, the reply comes back   *)
(* through handle_response.  The coordinator's greenlets run whenever they *)
(* can; nothing is assumed of the 10 second timeout.                       *)
(***************************************************************************)
\* _request calls in one behaviour of the process, all callers together
LocalCalls == 2

\* the callers of the one process
LocalCallers == { c \in Callers : ClientId[c] = "w1" }

\* every message a caller can send
LocalMessages ==
    UNION { { ProduceTestdata(c, req, <<c, n>>) : req \in ConsumerRequests(c), n \in 1..LocalCalls } :
            c \in LocalCallers }

\* send_message('produce_testdata', ...) reaches handle_request(environment, msg) in greenlet h
LocalArrive(h, msg) ==
    /\ msg \in produce
    /\ threads[h].pc = "idle"
    /\ threads' = [threads EXCEPT ![h] = [pc |-> "arrived",
                                          caller |-> [uid |-> msg.uid, cid |-> msg.cid, rid |-> msg.rid],
                                          request |-> msg.request]]
    /\ produce' = produce \ {msg}
    /\ UNCHANGED <<pc, semaphore, responses, consume, result, calls, consumer_raised, pop, answers, operation, tasks>>
    /\ UNCHANGED <<keystore, request, response, raised, handled, keystoreVars>>
    /\ UNCHANGED <<scenarios_iteration, has_persisted, persist_file, message, reply, replies,
                   caught, served, advanced, producer_semaphore, test_stops>>

\* the body of handle_request's with-block in greenlet h, its send_message
\* ('consume_testdata', ...) included
LocalHandleBody(h, reads) ==
    /\ threads[h].pc = "locked"
    /\ HandleRequest(threads[h].caller, threads[h].request, reads)
    /\ threads' = [threads EXCEPT ![h].pc = "done"]
    /\ consume' = IF raised' = "none"
                  THEN consume \cup {[type |-> reply'.type, uid |-> reply'.uid,
                                      response |-> reply'.response,
                                      client_id |-> reply'.client_id, rid |-> threads[h].caller.rid]}
                  ELSE consume
    /\ answers' = IF raised' = "none"
                  THEN answers \cup {[rid |-> threads[h].caller.rid, request |-> threads[h].request,
                                      response |-> reply'.response]}
                  ELSE answers
    /\ UNCHANGED <<pc, semaphore, responses, produce, result, calls, consumer_raised, pop, operation, tasks>>

LocalSend ==
    /\ calls["c1"] + calls["c2"] + calls["c3"] < LocalCalls
    /\ \E c \in LocalCallers : \E req \in ConsumerRequests(c) : RequestSend(c, req) /\ UNCHANGED <<pop, operation>>
LocalReturn(c) == RequestReturn(c) /\ UNCHANGED <<pop, operation>>
LocalTimeout(c) == RequestTimeout(c) /\ UNCHANGED <<pop, operation>>
LocalArrives == \E h \in Handlers : \E msg \in LocalMessages : LocalArrive(h, msg)
LocalHandles ==
    \E h \in Handlers :
       /\ threads[h].pc = "locked"
       /\ \E reads \in ReadsFor(threads[h].request) : LocalHandleBody(h, reads)
LocalResponds == \E msg \in consume : HandleResponse(msg)

NextLocal ==
    \/ LocalSend
    \/ \E c \in LocalCallers : LocalReturn(c)
    \/ \E c \in LocalCallers : LocalTimeout(c)
    \/ LocalArrives
    \/ \E h \in Handlers : Acquire(h)
    \/ LocalHandles
    \/ \E h \in Handlers : Release(h)
    \/ LocalResponds

\* what the process does without waiting for time to pass: the coordinator's
\* greenlets, handle_response, and the return of a get() whose value is set
LocalRuns ==
    \/ LocalArrives
    \/ \E h \in Handlers : Acquire(h)
    \/ LocalHandles
    \/ \E h \in Handlers : Release(h)
    \/ LocalResponds
    \/ \E c \in LocalCallers : LocalReturn(c)

SpecLocal == Init /\ [][NextLocal]_vars /\ WF_vars(LocalRuns)

(***************************************************************************)
(* SpecPop: TestdataConsumer.keystore_pop, polling through _request, next  *)
(* to a caller of the same worker that pushes.  Time is counted in ticks.  *)
(***************************************************************************)
\* resolution of perf_counter() in the model: ticks per second
TicksPerSecond == 2
\* poll_interval, 1.0 second, in ticks
PollInterval == 2
\* the largest wait, in seconds, keystore_pop is called with
MaxWait == 1
\* wait = -1 is the default
Waits == -1..MaxWait
\* ticks a _request of a poll may take before its reply is there
RequestTicks == {0, 1}
\* from here on int(elapsed) exceeds every wait; later times are counted as this one
MaxElapsed == TicksPerSecond * (MaxWait + 1)

Elapsed(e, d) == IF e + d > MaxElapsed THEN MaxElapsed ELSE e + d

Poppers == {"c1"}
Pushers == {"c2"}

\* keystore_pop: request = {'action': 'pop', 'key': key}, through _keystore_request
PopRequest(c) ==
    [message |-> "keystore", identifier |-> IdentifierOf[c], action |-> "pop", key |-> "k1"]

\* keystore_push("k1", "a")
PushRequest(c) ==
    [message |-> "keystore", identifier |-> IdentifierOf[c], action |-> "push", key |-> "k1",
     data |-> StrV(<<"a">>)]

\* mutant: an error in the response is taken for the value
DataOrError(resp) ==
    IF "error" \in DOMAIN resp THEN StrV(<<resp["error"]>>) ELSE DictGet(resp, "data", None)

\* what keystore_get, keystore_inc and _keystore_pop_poll return:
\* (response or {}).get('data', None)
DataOf(resp) == DictGet(resp, "data", None)

\* mutant: the elapsed time is compared without int()
WaitExceededExact(wait, elapsed) == wait > -1 /\ elapsed > wait * TicksPerSecond

\* wait > -1 and (int(perf_counter() - start) > wait)
WaitExceeded(wait, elapsed) == wait > -1 /\ (elapsed \div TicksPerSecond) > wait

\* keystore_pop(key, wait) is called
KeystorePopCall(c, wait) ==
    /\ pop[c].pc = "idle"
    /\ pc[c] = "idle"
    /\ pop' = [pop EXCEPT ![c] = [pc |-> "first", wait |-> wait, value |-> None,
                                  elapsed |-> 0, outcome |-> "none"]]
    /\ UNCHANGED <<pc, semaphore, responses, produce, consume, result, calls, consumer_raised>>
    /\ UNCHANGED <<keystore, request, response, raised, handled, keystoreVars, producerVars, tasks, answers, operation>>

\* _keystore_pop_poll(request), up to the wait of _request
KeystorePopPoll(c) ==
    /\ pop[c].pc \in {"first", "poll"}
    /\ RequestSend(c, PopRequest(c))
    /\ pop' = [pop EXCEPT ![c].pc = IF pop[c].pc = "first" THEN "first_wait" ELSE "poll_wait"]
    /\ UNCHANGED operation

\* _keystore_pop_poll returns after d ticks: value = (response or {}).get('data', None).
\* After the first poll start is taken and the loop is entered while value is
\* None; after a poll of the loop the wait is checked, then the loop condition
KeystorePopValue(c, d) ==
    /\ pop[c].pc \in {"first_wait", "poll_wait"}
    /\ RequestReturn(c)
    /\ LET value == DataOf(result'[c].response)
           elapsed == IF pop[c].pc = "first_wait" THEN 0 ELSE Elapsed(pop[c].elapsed, d)
       IN  pop' = [pop EXCEPT ![c] =
                     IF pop[c].pc = "poll_wait" /\ IsNone(value) /\ WaitExceeded(pop[c].wait, elapsed)
                     THEN [@ EXCEPT !.pc = "idle", !.value = value, !.elapsed = elapsed,
                                    !.outcome = "RuntimeError"]
                     ELSE IF IsNone(value)
                     THEN [@ EXCEPT !.pc = "sleep", !.value = value, !.elapsed = elapsed]
                     ELSE [@ EXCEPT !.pc = "idle", !.value = value, !.elapsed = elapsed,
                                    !.outcome = "returned"]]
    /\ UNCHANGED operation

\* the _request of a poll times out: gevent's Timeout is a BaseException, which
\* suppress(Exception) lets through, and the first poll is not guarded at all
KeystorePopTimeout(c) ==
    /\ pop[c].pc \in {"first_wait", "poll_wait"}
    /\ RequestTimeout(c)
    /\ pop' = [pop EXCEPT ![c].pc = "idle", ![c].outcome = "Timeout"]
    /\ UNCHANGED operation

\* mutant: the sleep is not followed by another poll
KeystorePopSleepsOn(c) ==
    /\ pop[c].pc = "sleep"
    /\ pop' = [pop EXCEPT ![c].elapsed = Elapsed(@, PollInterval)]
    /\ UNCHANGED <<pc, semaphore, responses, produce, consume, result, calls, consumer_raised>>
    /\ UNCHANGED <<keystore, request, response, raised, handled, keystoreVars, producerVars, tasks, answers, operation>>

\* gsleep(self.poll_interval)
KeystorePopSleep(c) ==
    /\ pop[c].pc = "sleep"
    /\ pop' = [pop EXCEPT ![c].pc = "poll", ![c].elapsed = Elapsed(@, PollInterval)]
    /\ UNCHANGED <<pc, semaphore, responses, produce, consume, result, calls, consumer_raised>>
    /\ UNCHANGED <<keystore, request, response, raised, handled, keystoreVars, producerVars, tasks, answers, operation>>

NextPop ==
    \/ \E c \in Poppers : \E wait \in Waits : KeystorePopCall(c, wait)
    \/ \E c \in Poppers : KeystorePopPoll(c)
    \/ \E c \in Poppers : \E d \in RequestTicks : KeystorePopValue(c, d)
    \/ \E c \in Poppers : KeystorePopTimeout(c)
    \/ \E c \in Poppers : KeystorePopSleep(c)
    \/ \E c \in Pushers : RequestSend(c, PushRequest(c)) /\ UNCHANGED <<pop, operation>>
    \/ \E c \in Pushers : RequestReturn(c) /\ UNCHANGED <<pop, operation>>
    \/ \E c \in Pushers : RequestTimeout(c) /\ UNCHANGED <<pop, operation>>
    \/ \E msg \in consume : HandleResponse(msg)
    \/ \E msg \in produce : \E reads \in ReadsFor(msg.request) : Handle(msg, reads)

SpecPop == Init /\ [][NextPop]_vars

(***************************************************************************)
(* SpecPopError: keystore_pop("k1", wait) while another caller stores a    *)
(* string under k1 with keystore_set("k1", "a").                           *)
(***************************************************************************)
Setters == {"c3"}

\* keystore_set("k1", "a")
SetRequest(c) ==
    [message |-> "keystore", identifier |-> IdentifierOf[c], action |-> "set", key |-> "k1",
     data |-> StrV(<<"a">>)]

NextPopError ==
    \/ \E c \in Poppers : \E wait \in Waits : KeystorePopCall(c, wait)
    \/ \E c \in Poppers : KeystorePopPoll(c)
    \/ \E c \in Poppers : \E d \in RequestTicks : KeystorePopValue(c, d)
    \/ \E c \in Poppers : KeystorePopTimeout(c)
    \/ \E c \in Poppers : KeystorePopSleep(c)
    \/ \E c \in Setters :
          /\ calls[c] = 0
          /\ RequestSend(c, SetRequest(c))
          /\ UNCHANGED <<pop, operation>>
    \/ \E c \in Setters : RequestReturn(c) /\ UNCHANGED <<pop, operation>>
    \/ \E c \in Setters : RequestTimeout(c) /\ UNCHANGED <<pop, operation>>
    \/ \E msg \in consume : HandleResponse(msg)
    \/ \E msg \in produce : \E reads \in ReadsFor(msg.request) : Handle(msg, reads)

SpecPopError == Init /\ [][NextPopError]_vars

(***************************************************************************)
(* SpecPopAnswered: keystore_pop("k1") with wait = -1 and one push, by a   *)
(* caller of the same or of another process, where every request is        *)
(* answered before its timeout and every greenlet that can run does.       *)
(***************************************************************************)
\* the value each caller pushes
PushValue == ("c1" :> StrV(<<"a">>)) @@ ("c2" :> StrV(<<"b">>)) @@ ("c3" :> StrV(<<"c">>))

OtherCallers == Callers \ Poppers

\* keystore_push("k1", PushValue[c])
PushRequestOf(c) ==
    [message |-> "keystore", identifier |-> IdentifierOf[c], action |-> "push", key |-> "k1",
     data |-> PushValue[c]]

NextPopAnswered ==
    \/ \E c \in Poppers : KeystorePopCall(c, -1)
    \/ \E c \in Poppers : KeystorePopPoll(c)
    \/ \E c \in Poppers : \E d \in RequestTicks : KeystorePopValue(c, d)
    \/ \E c \in Poppers : KeystorePopSleep(c)
    \/ \E c \in OtherCallers :
          /\ \A x \in OtherCallers : calls[x] = 0
          /\ RequestSend(c, PushRequestOf(c)) /\ UNCHANGED <<pop, operation>>
    \/ \E c \in OtherCallers : RequestReturn(c) /\ UNCHANGED <<pop, operation>>
    \/ \E msg \in consume : HandleResponse(msg)
    \/ \E msg \in produce : \E reads \in ReadsFor(msg.request) : Handle(msg, reads)

SpecPopAnswered ==
    /\ Init /\ [][NextPopAnswered]_vars
    /\ \A c \in Poppers : WF_vars(KeystorePopPoll(c))
    /\ \A c \in Poppers : WF_vars(\E d \in RequestTicks : KeystorePopValue(c, d))
    /\ \A c \in Poppers : WF_vars(KeystorePopSleep(c))
    /\ \A c \in OtherCallers : WF_vars(RequestReturn(c) /\ UNCHANGED <<pop, operation>>)
    /\ WF_vars(\E msg \in consume : HandleResponse(msg))
    /\ WF_vars(\E msg \in produce : \E reads \in ReadsFor(msg.request) : Handle(msg, reads))

(***************************************************************************)
(* SpecAtomic: every caller makes one request, keystore_inc("k1", 1) or    *)
(* keystore_push("k2", v) with a value v of its own, all concurrently.     *)
(***************************************************************************)
AtomicRequests(c) ==
    { [message |-> "keystore", identifier |-> IdentifierOf[c], action |-> "inc",
       key |-> "k1", data |-> IntV(1)],
      [message |-> "keystore", identifier |-> IdentifierOf[c], action |-> "push",
       key |-> "k2", data |-> PushValue[c]] }

NextAtomic ==
    \/ \E c \in Callers : \E req \in AtomicRequests(c) :
          calls[c] = 0 /\ RequestSend(c, req) /\ UNCHANGED <<pop, operation>>
    \/ \E c \in Callers : RequestReturn(c) /\ UNCHANGED <<pop, operation>>
    \/ \E c \in Callers : RequestTimeout(c) /\ UNCHANGED <<pop, operation>>
    \/ \E msg \in consume : HandleResponse(msg)
    \/ \E msg \in produce : \E reads \in ReadsFor(msg.request) : Handle(msg, reads)

SpecAtomic == Init /\ [][NextAtomic]_vars

\* SpecLive: SpecAtomic, where gevent ends every wait: AsyncResult.get(timeout=10.0)
\* returns the value or raises Timeout after 10 seconds.  Nothing is assumed
\* of the coordinator or of the transport
SpecLive ==
    SpecAtomic /\ \A c \in Callers : WF_vars((RequestReturn(c) \/ RequestTimeout(c)) /\ UNCHANGED <<pop, operation>>)

(***************************************************************************)
(* SpecOperations: every caller calls one of keystore_get, keystore_set,   *)
(* keystore_inc, keystore_push and keystore_del, all concurrently.         *)
(***************************************************************************)
\* the request dicts the operations build
KeystoreGetRequest(key) == [action |-> "get", key |-> key]
KeystoreSetRequest(key, value) == [action |-> "set", key |-> key, data |-> value]
KeystoreIncRequest(key, step) == [action |-> "inc", key |-> key, data |-> step]
KeystorePushRequest(key, value) == [action |-> "push", key |-> key, data |-> value]
KeystoreDelRequest(key) == [action |-> "del", key |-> key]

\* mutant: the identifier is left out
ConsumerKeystoreRequestAnonymous(c, req) == req @@ [message |-> "keystore"]

\* _keystore_request: request.update({'identifier': self.identifier}), then
\* {'message': 'keystore', **request}
ConsumerKeystoreRequest(c, req) == ([identifier |-> IdentifierOf[c]] @@ req) @@ [message |-> "keystore"]

\* the calls made: the operation, its key, the request dict it builds
OperationCalls ==
    UNION { { [name |-> "keystore_get", key |-> k, request |-> KeystoreGetRequest(k)],
              [name |-> "keystore_set", key |-> k, request |-> KeystoreSetRequest(k, StrV(<<"a">>))],
              [name |-> "keystore_inc", key |-> k, request |-> KeystoreIncRequest(k, IntV(1))],
              [name |-> "keystore_push", key |-> k, request |-> KeystorePushRequest(k, StrV(<<"a">>))],
              [name |-> "keystore_del", key |-> k, request |-> KeystoreDelRequest(k)] } : k \in {"k1"} }

\* a caller calls an operation, which calls _keystore_request once
KeystoreOperation(c, call) ==
    /\ calls[c] = 0
    /\ RequestSend(c, ConsumerKeystoreRequest(c, call.request))
    /\ operation' = [operation EXCEPT ![c] = [name |-> call.name, key |-> call.key]]
    /\ UNCHANGED pop

NextOperations ==
    \/ \E c \in Callers : \E call \in OperationCalls : KeystoreOperation(c, call)
    \/ \E c \in Callers : RequestReturn(c) /\ UNCHANGED <<pop, operation>>
    \/ \E c \in Callers : RequestTimeout(c) /\ UNCHANGED <<pop, operation>>
    \/ \E msg \in consume : HandleResponse(msg)
    \/ \E msg \in produce : \E reads \in ReadsFor(msg.request) : Handle(msg, reads)

SpecOperations == Init /\ [][NextOperations]_vars

(***************************************************************************)
(* SpecTask: KeystoreTask, grizzly/tasks/keystore.py.  Callers run tasks   *)
(* on one key; every consumer operation of a task is one step, the request *)
(* handled by the coordinator and answered within it.  The values hold no  *)
(* template, so rendering leaves them as they are.                         *)
(***************************************************************************)
TaskCallers == {"c1", "c3"}

\* the tasks of the scenarios: action, action_context (the variable name for
\* get, inc and pop; the value for set and push), default_value
KeystoreTasks ==
    { [action |-> "get", action_context |-> StrV(<<"v">>), default_value |-> None],
      [action |-> "get", action_context |-> StrV(<<"v">>), default_value |-> StrV(<<"d">>)],
      [action |-> "inc", action_context |-> StrV(<<"v">>), default_value |-> None],
      [action |-> "set", action_context |-> StrV(<<"a">>), default_value |-> None],
      [action |-> "push", action_context |-> StrV(<<"a">>), default_value |-> None],
      [action |-> "pop", action_context |-> StrV(<<"v">>), default_value |-> None],
      [action |-> "del", action_context |-> None, default_value |-> None] }

\* the request of the first consumer operation a task calls
FirstRequest(task, key) ==
    CASE task.action = "get" -> KeystoreGetRequest(key)
      [] task.action = "inc" -> KeystoreIncRequest(key, IntV(1))
      [] task.action = "set" -> KeystoreSetRequest(key, task.action_context)
      [] task.action = "push" -> KeystorePushRequest(key, task.action_context)
      [] task.action = "pop" -> [action |-> "pop", key |-> key]
      [] OTHER -> KeystoreDelRequest(key)

\* mutant: the default is stored whatever keystore_get returned
UsesDefaultAlways(value, default_value) == ~IsNone(default_value)

\* value is None and self.default_value is not None
UsesDefault(value, default_value) == IsNone(value) /\ ~IsNone(default_value)

\* the except clause: request.fire(request_type='KEYS', ..., exception=e)
Failed(task, e) == [task EXCEPT !.pc = "idle", !.fired = @ + 1, !.outcome = e]

\* the task returns
Done(task) == [task EXCEPT !.pc = "idle", !.outcome = "done"]

\* the coordinator raised and sent no reply: _request raises gevent's Timeout,
\* a BaseException, which passes the task's 'except Exception'
TimedOut(task) == [task EXCEPT !.pc = "idle", !.outcome = "Timeout"]

\* the task after the reply to its first operation
AfterFirst(task, resp) ==
    CASE task.action = "get" ->
            IF UsesDefault(DataOf(resp), task.default_value)
            THEN [task EXCEPT !.pc = "default", !.seen = DataOf(resp)]
            ELSE IF ~IsNone(DataOf(resp)) /\ ~IsNone(task.action_context)
            THEN Done([task EXCEPT !.seen = DataOf(resp), !.variable = DataOf(resp)])
            ELSE Failed([task EXCEPT !.seen = DataOf(resp)], "RuntimeError")
      [] task.action = "inc" ->
            IF ~IsNone(DataOf(resp)) /\ ~IsNone(task.action_context)
            THEN Done([task EXCEPT !.variable = DataOf(resp)])
            ELSE Failed(task, "RuntimeError")
      [] task.action = "pop" ->
            IF IsNone(DataOf(resp))
            THEN [task EXCEPT !.pc = "sleep"]
            ELSE Done([task EXCEPT !.variable = DataOf(resp)])
      [] OTHER -> Done(task)

\* task(parent) is called and calls its first consumer operation
TaskCall(c, t, key) ==
    /\ tasks[c].pc = "idle"
    /\ KeystoreHandled(ConsumerKeystoreRequest(c, FirstRequest(t, key)))
    /\ LET task == [NoTask EXCEPT !.pc = "called", !.action = t.action, !.key = key,
                                  !.action_context = t.action_context,
                                  !.default_value = t.default_value,
                                  !.existed = key \in DOMAIN keystore,
                                  !.called = <<t.action>>,
                                  !.variable = tasks[c].variable]
       IN  tasks' = [tasks EXCEPT ![c] = IF raised' # "none" THEN TimedOut(task)
                                          ELSE AfterFirst(task, response')]
    /\ UNCHANGED <<producerVars, pc, semaphore, responses, produce, consume, result, calls,
                   consumer_raised, pop, answers, operation>>

\* parent.consumer.keystore_set(key, self.default_value); value = self.default_value
TaskDefault(c) ==
    /\ tasks[c].pc = "default"
    /\ KeystoreHandled(ConsumerKeystoreRequest(c, KeystoreSetRequest(tasks[c].key, tasks[c].default_value)))
    /\ LET task == [tasks[c] EXCEPT !.called = Append(@, "set")]
       IN  tasks' = [tasks EXCEPT ![c] = IF raised' # "none" THEN TimedOut(task)
                                          ELSE Done([task EXCEPT !.variable = task.default_value])]
    /\ UNCHANGED <<producerVars, pc, semaphore, responses, produce, consume, result, calls,
                   consumer_raised, pop, answers, operation>>

\* keystore_pop's loop: gsleep(poll_interval), then _keystore_pop_poll again
TaskPopPoll(c) ==
    /\ tasks[c].pc = "sleep"
    /\ KeystoreHandled(ConsumerKeystoreRequest(c, [action |-> "pop", key |-> tasks[c].key]))
    /\ LET task == [tasks[c] EXCEPT !.called = Append(@, "pop")]
       IN  tasks' = [tasks EXCEPT ![c] = IF raised' # "none" THEN TimedOut(task)
                                          ELSE IF IsNone(DataOf(response')) THEN task
                                          ELSE Done([task EXCEPT !.variable = DataOf(response')])]
    /\ UNCHANGED <<producerVars, pc, semaphore, responses, produce, consume, result, calls,
                   consumer_raised, pop, answers, operation>>

NextTask ==
    \/ \E c \in TaskCallers, t \in KeystoreTasks : TaskCall(c, t, "k1")
    \/ \E c \in TaskCallers : TaskDefault(c)
    \/ \E c \in TaskCallers : TaskPopPoll(c)

SpecTask == Init /\ [][NextTask]_vars

(***************************************************************************)
(* SpecUntil: UntilRequestTask.  Every caller executes the task again and  *)
(* again; an execution is the steps between two gsleep(self.wait): the     *)
(* call up to the first sleep, then one pass of the loop each, the last    *)
(* pass running on through the event to the end of the task.               *)
(***************************************************************************)
\* the largest value of the retries argument
MaxRetries == 2
\* the most matches the condition finds in a payload
MaxMatches == 2

NoException == "none"

\* scenario.failure_exception: not configured, or the exception class
FailureExceptions == {NoException, "StopUser"}

\* what one pass of the loop gets: a payload with n matches, no payload
\* (TransformerError), or an exception out of parent.user.request
Attempts ==
    { [raised |-> NoException, matches |-> n] : n \in 0..MaxMatches }
    \cup { [raised |-> "TransformerError", matches |-> 0], [raised |-> "StopUser", matches |-> 0] }

\* the task's locals when the loop starts; requests counts the calls of
\* parent.user.request, fired the UNTL events, event_exception is the
\* exception the event carried, outcome the exception that left the task
UntilTask(retries, valid, failure_exception) ==
    [pc |-> "loop", action |-> "until", retries |-> retries, valid |-> valid,
     failure_exception |-> failure_exception,
     retry |-> 0, number_of_matches |-> 0, exception |-> NoException,
     requests |-> 0, fired |-> 0, event_exception |-> NoException, outcome |-> "none"]

\* mutant: the exception of an earlier pass is kept when the last pass matched
FinalExceptionStale(number_of_matches, exception) ==
    IF exception = NoException /\ number_of_matches # 1 THEN "RuntimeError" ELSE exception

\* the exception the event gets: none after exactly one match, else the one
\* caught last, else a RuntimeError
FinalException(number_of_matches, exception) ==
    IF number_of_matches = 1
    THEN NoException
    ELSE IF exception = NoException THEN "RuntimeError" ELSE exception

\* one pass of the while loop
UntilPass(task, attempt) ==
    LET passed == [task EXCEPT !.requests = @ + 1,
                               !.number_of_matches = IF attempt.raised = NoException
                                                     THEN attempt.matches ELSE 0,
                               !.exception = IF attempt.raised = NoException THEN @ ELSE attempt.raised]
    IN  IF passed.number_of_matches = 1 THEN passed ELSE [passed EXCEPT !.retry = @ + 1]

\* after the loop: the request event is fired, the failure exception raised
UntilEnd(task) ==
    LET exception == FinalException(task.number_of_matches, task.exception)
    IN  [task EXCEPT !.pc = "ended",
                     !.fired = @ + 1,
                     !.event_exception = exception,
                     !.outcome = IF exception # NoException /\ task.failure_exception # NoException
                                 THEN task.failure_exception ELSE "none"]

\* _implementation(parent) up to the first gsleep; valid is
\* transform.validate(condition_rendered)
UntilCall(c, retries, valid, failure_exception) ==
    /\ tasks[c].pc \in {"idle", "ended"}
    /\ tasks' = [tasks EXCEPT ![c] =
                    IF valid
                    THEN UntilTask(retries, valid, failure_exception)
                    ELSE [UntilTask(retries, valid, failure_exception) EXCEPT
                             !.pc = "ended", !.outcome = "RuntimeError"]]
    /\ UNCHANGED <<keystore, request, response, raised, handled, keystoreVars, producerVars>>
    /\ UNCHANGED <<pc, semaphore, responses, produce, consume, result, calls, consumer_raised,
                   pop, answers, operation>>

\* from the end of a gsleep to the next gsleep, or to the end of the task
UntilAttempt(c, attempt) ==
    /\ tasks[c].pc = "loop"
    /\ LET passed == UntilPass(tasks[c], attempt)
       IN  tasks' = [tasks EXCEPT ![c] =
                        IF passed.number_of_matches = 1 \/ ~(passed.retry < passed.retries)
                        THEN UntilEnd(passed)
                        ELSE passed]
    /\ UNCHANGED <<keystore, request, response, raised, handled, keystoreVars, producerVars>>
    /\ UNCHANGED <<pc, semaphore, responses, produce, consume, result, calls, consumer_raised,
                   pop, answers, operation>>

NextUntil ==
    \/ \E c \in TaskCallers, retries \in 1..MaxRetries, valid \in BOOLEAN,
          failure_exception \in FailureExceptions : UntilCall(c, retries, valid, failure_exception)
    \/ \E c \in TaskCallers, attempt \in Attempts : UntilAttempt(c, attempt)

SpecUntil == Init /\ [][NextUntil]_vars

(***************************************************************************)
(* Claims about the coordinator, checked under SpecProducer.               *)
(***************************************************************************)
\* the step is handle_request handling a testdata request of scenario sc
\* that is answered
AnswersTestdata(sc) ==
    /\ handled' = handled + 1
    /\ request'["message"] = "testdata" /\ request'["identifier"] = sc
    /\ raised' = "none"

\* C7 (as claimed): for a scenario with iteration bound n > 0 a testdata
\* request is answered 'consume' exactly when fewer than n requests were
\* answered 'consume' since the counter was last 0, and 'stop' otherwise.
C7_ExactlyFirstN ==
    [][AnswersTestdata("ScenarioA")
        => /\ response'["action"] \in {"consume", "stop"}
           /\ response'["action"] = "consume" <=> served["ScenarioA"] < IterationsA]_vars

\* C7 (amended): a testdata request that is answered is answered 'consume'
\* exactly when fewer than n requests were answered 'consume' since the
\* counter was last 0 and materializing its variables raised no TypeError;
\* a 'consume' adds one to the counter, a 'stop' leaves it, and on_test_stop
\* sets it to 0.
C7_FirstNMaterialized ==
    [][/\ AnswersTestdata("ScenarioA")
            => /\ response'["action"] \in {"consume", "stop"}
               /\ response'["action"] = "consume"
                     <=> (served["ScenarioA"] < IterationsA /\ caught' = "none")
               /\ scenarios_iteration'["ScenarioA"] = served'["ScenarioA"]
               /\ served'["ScenarioA"] <= IterationsA
       /\ (handled' = handled /\ "ScenarioA" \in DOMAIN scenarios_iteration /\ served' # served)
            => scenarios_iteration'["ScenarioA"] = 0]_vars

\* C7 witness: the bound is reached and the request after it was answered 'stop'.
C7_Witness ==
    /\ request = [message |-> "testdata", identifier |-> "ScenarioA"]
    /\ raised = "none" /\ caught = "none"
    /\ response = StopResponse
    /\ served["ScenarioA"] = IterationsA
    /\ scenarios_iteration["ScenarioA"] = IterationsA

\* C9 (as claimed): every message handle_request has handled was answered
\* with exactly one 'consume_testdata' message, sent to the cid and carrying
\* the uid of that message.
C9_OneReplyPerRequest ==
    /\ replies = handled
    /\ handled > 0 => reply = ConsumeTestdata(message.uid, message.cid, response)

\* the claim's two cases: a push on a key holding a value that is no list, an
\* inc whose step is no number
PushOnNonList ==
    /\ HasKey(request') /\ IsAction(request', "push")
    /\ request'["key"] \in DOMAIN keystore /\ ~IsList(keystore[request'["key"]])

IncWithBadStep ==
    /\ HasKey(request') /\ IsAction(request', "inc")
    /\ "data" \in DOMAIN request' /\ ~IsInt(request'["data"])

\* C10 (as claimed): no error of the keystore handler is raised out of
\* handle_request; a push on a key holding a non-list value and an inc with a
\* step that is no number are answered with an error response that is sent,
\* the keystore unchanged.
C10_ErrorsAreResponses ==
    [][(handled' = handled + 1 /\ request'["message"] = "keystore")
        => /\ raised' = "none"
           /\ (PushOnNonList \/ IncWithBadStep)
                => /\ HasError(response')
                   /\ replies' = replies + 1
                   /\ reply' = ConsumeTestdata(message'.uid, message'.cid, response')
                   /\ keystore' = keystore]_vars

\* the actions _handle_request_keystore knows
KnownActions == {"get", "set", "inc", "push", "pop", "del"}

\* the last step handled a keystore message that has no key or no known action
HandlesMalformed ==
    /\ handled' = handled + 1
    /\ request'["message"] = "keystore"
    /\ (~HasKey(request') \/ DictGet(request', "action", "") \notin KnownActions)

\* how a malformed keystore message is answered
MalformedAnswered ==
    /\ raised' = "none"
    /\ DictGet(response', "data", NoData) = None
    /\ HasError(response')
    /\ keystore' = keystore
    /\ scenarios_iteration' = scenarios_iteration
    /\ (~HasKey(request') => response'["error"] = MsgNoKey)
    /\ (HasKey(request') => response'["error"] = MsgUnknownAction)

\* C11: a keystore request without a key, and one with an unknown action,
\* is answered with data null and an error, and leaves the keystore and the
\* iteration counters as they were; without a key the error is the
\* missing-key error, whatever the action.
C11_MalformedRequests == [][HandlesMalformed => MalformedAnswered]_vars

\* C11 witness: a request with neither key nor known action was answered with the
\* missing-key error while the keystore and the counters held something
C11_Witness ==
    /\ request # EmptyDict
    /\ request["message"] = "keystore"
    /\ ~HasKey(request)
    /\ IsAction(request, "bogus")
    /\ HasError(response)
    /\ response["error"] = MsgNoKey
    /\ DOMAIN keystore # {}
    /\ \E sc \in DOMAIN scenarios_iteration : scenarios_iteration[sc] > 0

\* the last step handled a testdata request
HandlesTestdata == handled' = handled + 1 /\ request'["message"] = "testdata"

\* no counter that exists has changed, and a new one is 0
NoCounterIncremented ==
    \A sc \in DOMAIN scenarios_iteration' :
        IF sc \in DOMAIN scenarios_iteration
        THEN scenarios_iteration'[sc] = scenarios_iteration[sc]
        ELSE scenarios_iteration'[sc] = 0

\* C22: no exception leaves the handler of a testdata request; a request
\* for an unknown scenario, and one in which materializing a variable fails,
\* is answered 'stop' and increments no counter.
C22_FailuresBecomeStop ==
    [][HandlesTestdata
        => /\ raised' = "none"
           /\ (request'["identifier"] \notin ScenarioNames \/ caught' # "none")
                => (response'["action"] = "stop" /\ NoCounterIncremented)]_vars

\* the counter of sc before the step, 0 when the step creates it
CounterBefore(sc) == DictGet(scenarios_iteration, sc, 0)

\* C23: a counter is created, at 0, only by a testdata request of its
\* scenario, whose iteration bound is positive; a testdata request answered
\* 'consume' adds exactly 1 to the counter of its scenario, any other request
\* adds nothing, no request changes the counter of another scenario; outside
\* requests counters change only by on_test_stop, which sets them all to 0.
C23_CounterSteps ==
    [][/\ DOMAIN scenarios_iteration \subseteq DOMAIN scenarios_iteration'
       /\ \A sc \in DOMAIN scenarios_iteration' :
             /\ sc \notin DOMAIN scenarios_iteration
                   => (HandlesTestdata /\ request'["identifier"] = sc /\ ScenarioIterations[sc] > 0)
             /\ IF /\ HandlesTestdata /\ request'["identifier"] = sc
                   /\ raised' = "none" /\ response'["action"] = "consume"
                THEN scenarios_iteration'[sc] = CounterBefore(sc) + 1
                ELSE IF handled' = handled + 1
                THEN scenarios_iteration'[sc] = CounterBefore(sc)
                ELSE scenarios_iteration'[sc] \in {scenarios_iteration[sc], 0}
       /\ (handled' = handled /\ served' # served)
             => \A sc \in DOMAIN scenarios_iteration' : scenarios_iteration'[sc] = 0]_vars

\* C23 witness: the third request handled is a 'consume' of ScenarioA that
\* has brought its counter to 1
C23_Witness ==
    /\ request = [message |-> "testdata", identifier |-> "ScenarioA"]
    /\ raised = "none"
    /\ DictGet(response, "action", "") = "consume"
    /\ DictGet(scenarios_iteration, "ScenarioA", 0) = 1
    /\ handled = 3
    /\ replies = 3

\* the scenarios whose iteration bound is not positive
Unbounded == { sc \in ScenarioNames : ScenarioIterations[sc] <= 0 }

\* C24: a scenario whose iteration bound is not positive never has a
\* counter, and a testdata request for it is answered 'stop' with no data,
\* reads no generator and leaves the counters as they are.
C24_UntrackedStops ==
    /\ [](\A sc \in Unbounded : sc \notin DOMAIN scenarios_iteration)
    /\ [][(HandlesTestdata /\ request'["identifier"] \in Unbounded)
            => /\ raised' = "none"
               /\ response' = StopResponse
               /\ \A g \in GeneratorNames : advanced'[g] = 0
               /\ scenarios_iteration' = scenarios_iteration]_vars

\* C24 witness: a request for ScenarioB, whose bound is 0, was answered
\* 'stop' while ScenarioA had a counter above 0
C24_Witness ==
    /\ request = [message |-> "testdata", identifier |-> "ScenarioB"]
    /\ response = StopResponse
    /\ DictGet(scenarios_iteration, "ScenarioA", 0) > 0
    /\ "ScenarioB" \notin DOMAIN scenarios_iteration

\* the keys of scenario sc that reference generator g
KeysOf(sc, g) ==
    { Testdata[sc][i].key : i \in { j \in 1..Len(Testdata[sc]) : Testdata[sc][j].variable = Generator(g, TRUE)
                                                                  \/ Testdata[sc][j].variable = Generator(g, FALSE) } }

\* what key shows of the value read from its generator: the attribute named
\* by the third part of the key, or the value itself
Projected(read, key) ==
    IF Len(key) = 3
    THEN IF IsDict(read) /\ key[3] \in DOMAIN read.v THEN read.v[key[3]] ELSE NotImplementedError
    ELSE read

\* C25: in a 'consume' response each generator the scenario references has
\* yielded one value, whatever the number of keys that reference it, and the
\* values of all these keys are taken from that one value; a generator whose
\* read is not implemented yields none and its keys are left out.
C25_ReadOncePerResponse ==
    [][(HandlesTestdata /\ raised' = "none" /\ response'["action"] = "consume")
        => LET sc == request'["identifier"]
               variables == response'["data"]["variables"]
           IN  \A g \in GeneratorNames :
                  KeysOf(sc, g) # {}
                     => \/ /\ advanced'[g] = 1
                           /\ KeysOf(sc, g) \subseteq DOMAIN variables
                           /\ \E read \in ReadOutcomes[g] :
                                 \A key \in KeysOf(sc, g) : variables[key] = Projected(read, key)
                        \/ /\ advanced'[g] = 0
                           /\ KeysOf(sc, g) \cap DOMAIN variables = {}]_vars

\* C25 witness: a 'consume' response for ScenarioA carries both columns of
\* the second row, read from the generator once
C25_Witness ==
    /\ request = [message |-> "testdata", identifier |-> "ScenarioA"]
    /\ raised = "none"
    /\ DictGet(response, "action", "") = "consume"
    /\ advanced["input"] = 1
    /\ response["data"]["variables"][<<"AtomicCsvReader", "input", "col1">>] = StrV(<<"y">>)
    /\ response["data"]["variables"][<<"AtomicCsvReader", "input", "col2">>] = IntV(2)

\* the last step handled a request of a message kind other than 'keystore'
\* and 'testdata'
HandlesUnknownKind ==
    handled' = handled + 1 /\ request'["message"] \notin {"keystore", "testdata"}

\* C27: the keystore changes only in a step that handles a keystore request
\* whose action is not 'get'; testdata requests, requests of an unknown
\* message kind, on_test_stop and stop leave it as it is.  A request of an
\* unknown kind is answered with an empty response.  No keystore request and
\* no request of an unknown kind changes an iteration counter.
C27_KeystoreSingleWriter ==
    [][/\ keystore' # keystore
            => /\ handled' = handled + 1
               /\ request'["message"] = "keystore"
               /\ DictGet(request', "action", "") # "get"
       /\ HandlesUnknownKind
            => /\ raised' = "none"
               /\ response' = EmptyDict
               /\ replies' = replies + 1 /\ reply'.response = EmptyDict
       /\ (handled' = handled + 1 /\ request'["message"] # "testdata")
            => scenarios_iteration' = scenarios_iteration]_vars

\* C27 witness: with k1 stored, a counter at 1 and the state persisted, a
\* request of an unknown kind has been answered with an empty response
C27_Witness ==
    /\ DictGet(request, "message", "") = "bogus"
    /\ response = EmptyDict /\ raised = "none" /\ reply.response = EmptyDict
    /\ "k1" \in DOMAIN keystore
    /\ DictGet(scenarios_iteration, "ScenarioA", 0) = 1
    /\ has_persisted

\* C28: at every test_stop event whose variable state is not empty the
\* snapshot file is written, unless writing it fails, and at an event whose
\* variable state is empty nothing is written.
C28_WrittenAtEveryTestStop ==
    \A i \in 1..Len(test_stops) :
        /\ (DOMAIN test_stops[i].state # {} /\ ~test_stops[i].failed) => test_stops[i].written
        /\ DOMAIN test_stops[i].state = {} => ~test_stops[i].written

\* every combination of values the generators can yield in one request
AllReads ==
    { reads \in [GeneratorNames -> UNION { ReadOutcomes[g] : g \in GeneratorNames }] :
        \A g \in GeneratorNames : reads[g] \in ReadOutcomes[g] }

\* the keys of scenario sc that name generator g itself, not an attribute of it
DirectKeysOf(sc, g) == { key \in KeysOf(sc, g) : Len(key) = 2 }

\* what the testdata handler does with a request for sc in the present state
\* when the generators yield reads
TestdataAnswer(sc, reads) ==
    HandleRequestTestdata(scenarios_iteration, [message |-> "testdata", identifier |-> sc], reads)

\* C31: whatever the generators yield, None included, a request for a
\* scenario that has no counter is answered 'stop' with no data and changes
\* no counter; for a scenario that has a counter below its bound, a request
\* in which nothing fails is answered 'consume', and a generator that yields
\* None is shipped as None under its key.
C31_NullValues ==
    \A sc \in ScenarioNames, reads \in AllReads :
        LET out == TestdataAnswer(sc, reads)
        IN  /\ sc \notin DOMAIN out.iterations
               => /\ out.raised = "none"
                  /\ out.response["action"] = "stop"
                  /\ DictGet(out.response, "data", EmptyDict) = EmptyDict
                  /\ out.iterations = scenarios_iteration
            /\ (/\ sc \in DOMAIN out.iterations
                /\ DictGet(scenarios_iteration, sc, 0) < ScenarioIterations[sc]
                /\ out.raised = "none" /\ out.caught = "none")
               => /\ out.response["action"] = "consume"
                  /\ \A g \in GeneratorNames : \A key \in DirectKeysOf(sc, g) :
                        IsNone(reads[g])
                           => /\ key \in DOMAIN out.response["data"]["variables"]
                              /\ IsNone(out.response["data"]["variables"][key])

\* C31 witness: ScenarioA, which has a counter, was answered 'consume' with
\* None under the key of its counter generator, and its counter went up
C31_Witness ==
    /\ request = [message |-> "testdata", identifier |-> "ScenarioA"]
    /\ raised = "none"
    /\ DictGet(response, "action", "") = "consume"
    /\ IsNone(response["data"]["variables"][<<"AtomicIntegerIncrementer", "counter">>])
    /\ DictGet(scenarios_iteration, "ScenarioA", 0) = 1

\* C33: every counter belongs to a scenario and lies between 0 and the
\* iteration bound of its scenario; checked under SpecLock, where requests
\* and test_stop events are handled by concurrent greenlets, and SpecProducer.
C33_CounterInRange ==
    \A sc \in DOMAIN scenarios_iteration :
        /\ sc \in ScenarioNames
        /\ 0 <= scenarios_iteration[sc]
        /\ scenarios_iteration[sc] <= ScenarioIterations[sc]

\* C33 witness: the 'consume' that brought the counter of ScenarioA to its
\* bound has been sent and its greenlet has not yet left the with-block
C33_Witness ==
    /\ DictGet(scenarios_iteration, "ScenarioA", 0) = IterationsA
    /\ DictGet(response, "action", "") = "consume"
    /\ \E h \in Handlers : threads[h].pc = "done"

(***************************************************************************)
(* Claims about the correlation of requests and replies, checked under     *)
(* Spec.                                                                   *)
(***************************************************************************)
\* what caller c got back is the reply to a request of c, addressed to the id
\* and the process of c, and carries the payload of c's request
ReturnedOwn(c) ==
    /\ result[c].from.rid[1] = c
    /\ result[c].from.uid = Uid[c]
    /\ result[c].from.client_id = ClientId[c]
    /\ DictGet(result[c].response, "identifier", "") = IdentifierOf[c]

C8_ReturnsOwn == \A c \in Callers : result[c].kind = "returned" => ReturnedOwn(c)

\* a step that handles reply msg leaves every caller, every lock, and every
\* pending entry but the one of msg's id in msg's worker as they were
C8_TouchesOnlyItsEntry ==
    \A msg \in consume :
        msg \notin consume' =>
            /\ pc' = pc /\ semaphore' = semaphore /\ result' = result
            /\ \A w \in Workers :
                /\ DOMAIN responses'[w] = DOMAIN responses[w]
                /\ \A u \in DOMAIN responses[w] :
                      (w # msg.client_id \/ u # msg.uid) => responses'[w][u] = responses[w][u]

\* C8: callers of one worker with distinct correlation ids each get back the
\* response the coordinator produced for their own request, never one
\* addressed to another caller's id, and handling a reply changes only the
\* pending entry of the id the reply carries.
C8_CorrelationIsolation == []C8_ReturnsOwn /\ [][C8_TouchesOnlyItsEntry]_vars

\* c1 and c2 of worker w1, and c3 of w2 whose id equals c1's, have each got
\* a reply back
C8_Witness ==
    /\ \A c \in Callers : result[c].kind = "returned" /\ ReturnedOwn(c)
    /\ result["c1"].response # result["c2"].response

\* C14: the consumer lock is held only while the registry is mutated, so
\* while a caller waits for its reply the lock of its worker is free and
\* another caller of the worker can register and send.
C14_LockFreeWhileWaiting ==
    \A c \in Callers : pc[c] = "waiting" => semaphore[ClientId[c]] = "free"

\* the callers of worker w
CallersOf(w) == { c \in Callers : ClientId[c] = w }

C16_LateReplyDropped ==
    [][\A msg \in consume :
          (msg \notin consume' /\ msg.uid \notin DOMAIN responses[msg.client_id])
              => (/\ consumer_raised'[msg.client_id] = "none"
                  /\ responses' = responses
                  /\ pc' = pc /\ semaphore' = semaphore /\ result' = result)]_vars

\* C17: the value a call returns is the reply to that very call, never the
\* reply to an earlier call of the same caller (calls[c] numbers the call
\* that c is in).
C17_ReplyOfThisCall ==
    [][\A c \in Callers :
          (pc[c] = "waiting" /\ pc'[c] = "idle" /\ result'[c].kind = "returned")
              => result'[c].from.rid = <<c, calls[c]>>]_vars

\* the wait of c ends without a value having been set
TimesOut(c) ==
    pc[c] = "waiting" /\ pc'[c] = "idle" /\ ~responses[ClientId[c]][Uid[c]].ready

\* C18: every call of _request ends; one whose reply has not arrived ends
\* with the timeout raised to the caller and returns no response.
C18_RequestTerminates ==
    /\ \A c \in Callers : (pc[c] = "waiting") ~> (pc[c] = "idle")
    /\ [][\A c \in Callers :
             TimesOut(c) => (result'[c].kind = "timeout" /\ result'[c].response = EmptyDict)]_vars

\* C18 witness: the call of c1 has ended with the timeout while its request
\* was still on its way to the coordinator
C18_Witness ==
    /\ pc["c1"] = "idle"
    /\ result["c1"].kind = "timeout"
    /\ \E msg \in produce : msg.rid = <<"c1", calls["c1"]>>

(***************************************************************************)
(* Claims about keystore_pop, checked under SpecPop.                       *)
(***************************************************************************)
\* keystore_pop returns only a value that is not None, and raises its
\* RuntimeError only for a wait >= 0 and without a value
PopEnds(c) ==
    /\ pop[c].outcome = "returned" => ~IsNone(pop[c].value)
    /\ pop[c].outcome = "RuntimeError" => (IsNone(pop[c].value) /\ pop[c].wait >= 0)
    /\ pop[c].wait = -1 => pop[c].outcome # "RuntimeError"

\* C19 as stated: keystore_pop never returns null; it goes on to sleep and
\* poll again only without a value and, for wait >= 0, only while the
\* elapsed time does not exceed wait seconds, else it raises; with
\* wait = -1 it never raises the timeout error.
C19_PopUntilWaitExceeded ==
    \A c \in Poppers :
        /\ PopEnds(c)
        /\ pop[c].pc = "sleep" =>
              /\ IsNone(pop[c].value)
              /\ (pop[c].wait = -1 \/ pop[c].elapsed <= pop[c].wait * TicksPerSecond)
        /\ pop[c].outcome = "RuntimeError" => pop[c].elapsed > pop[c].wait * TicksPerSecond

\* C19 amended: as above, with the elapsed time counted in whole seconds:
\* keystore_pop polls again while int(elapsed) <= wait and raises once
\* int(elapsed) > wait; the only other way it ends is with the Timeout of a
\* poll whose reply did not arrive.
C19_PopUntilWholeSecondsExceeded ==
    \A c \in Poppers :
        /\ PopEnds(c)
        /\ pop[c].pc = "sleep" =>
              /\ IsNone(pop[c].value)
              /\ (pop[c].wait = -1 \/ (pop[c].elapsed \div TicksPerSecond) <= pop[c].wait)
        /\ pop[c].outcome = "RuntimeError" => (pop[c].elapsed \div TicksPerSecond) > pop[c].wait
        /\ pop[c].outcome = "Timeout" => result[c].kind = "timeout"

\* C19 witness: keystore_pop("k1", wait = 1) has raised after polls without a
\* value
C19_Witness ==
    /\ pop["c1"].outcome = "RuntimeError"
    /\ pop["c1"].wait = 1
    /\ calls["c1"] >= 3

\* C32: a caller inside keystore_pop holds the consumer lock only while it
\* is inside _request: not before its first poll, not while it sleeps between
\* polls; so the lock is then free or held by another caller in its request.
C32_NoLockWhileSleeping ==
    /\ \A c \in Poppers :
          pop[c].pc \in {"first", "sleep", "poll"} => semaphore[ClientId[c]] # c
    /\ \A w \in Workers :
          semaphore[w] # "free" => (semaphore[w] \in CallersOf(w) /\ pc[semaphore[w]] = "waiting")

\* C32 witness: while c1 sleeps between two polls, c2 of the same process
\* holds the lock and waits for the reply to its push
C32_Witness ==
    /\ pop["c1"].pc = "sleep"
    /\ semaphore["w1"] = "c2"
    /\ pc["c2"] = "waiting"

\* the answers that took a value off a list: replies to 'pop' with data
Popped == { x \in answers : x.request["action"] = "pop" /\ ~IsNone(DictGet(x.response, "data", None)) }

\* C34: a value the coordinator took off the list for the latest request of
\* a caller in keystore_pop is on its way to that caller, which still waits
\* for it, or keystore_pop has returned it to that caller.
C34_PoppedIsDelivered ==
    \A x \in Popped :
        (x.rid[1] \in Poppers /\ x.rid[2] = calls[x.rid[1]])
           => \/ pc[x.rid[1]] = "waiting"
              \/ /\ pop[x.rid[1]].outcome = "returned"
                 /\ pop[x.rid[1]].value = x.response["data"]

\* the list under k1 holds a value
ValuePushed == "k1" \in DOMAIN keystore /\ IsList(keystore["k1"]) /\ Len(keystore["k1"].v) > 0

\* caller c is inside keystore_pop(k1, wait = -1) and has a poll ahead whose
\* request the coordinator will handle: the one on its way, or a later one
\* (the number of requests is bounded by MaxCalls)
BlockedInPop(c) ==
    /\ pop[c].pc # "idle" /\ pop[c].wait = -1
    /\ \/ calls["c1"] + calls["c2"] + calls["c3"] < MaxCalls
       \/ pc[c] = "waiting" /\ \E msg \in produce : msg.rid = <<c, calls[c]>>

\* C35: when every request is answered and every greenlet gets to run, a
\* caller inside keystore_pop(k1, wait = -1) while a pushed value is in the
\* list of k1 eventually returns a value.
C35_PopReturnsAfterPush ==
    \A c \in Poppers :
        (BlockedInPop(c) /\ ValuePushed) ~> (pop[c].outcome = "returned" /\ ~IsNone(pop[c].value))

\* C35 witness: c1's first poll found nothing, c1 sleeps, and the value
\* another caller pushed meanwhile is in the list
C35_Witness ==
    /\ BlockedInPop("c1") /\ ValuePushed
    /\ pop["c1"].pc = "sleep"
    /\ calls["c1"] = 1

\* in this step a poll of caller c inside keystore_pop has returned a
\* response that carries an error
PollReturnedError(c) ==
    /\ pop[c].pc \in {"first_wait", "poll_wait"}
    /\ pc[c] = "waiting" /\ pc'[c] = "idle"
    /\ result'[c].kind = "returned"
    /\ "error" \in DOMAIN result'[c].response

\* C36: a poll of keystore_pop that is answered with an error yields no
\* value and raises nothing of its own: the caller goes to sleep to poll
\* again, always so with wait = -1; with a wait it raises the RuntimeError
\* of an exceeded wait as it does for an absent value.
C36_ErrorIsNoValue ==
    [][\A c \in Poppers :
          PollReturnedError(c)
             => /\ IsNone(pop'[c].value)
                /\ pop'[c].outcome \in {"none", "RuntimeError"}
                /\ pop'[c].outcome = "none" <=> pop'[c].pc = "sleep"
                /\ pop'[c].outcome = "RuntimeError"
                      => (pop[c].pc = "poll_wait" /\ WaitExceeded(pop[c].wait, pop'[c].elapsed))
                /\ pop[c].wait = -1 => pop'[c].pc = "sleep"]_vars

\* C36 witness: k1 holds a string, c1 is inside keystore_pop(k1, wait = -1),
\* two of its polls were answered, the last with the error, and it sleeps
C36_Witness ==
    /\ DictGet(keystore, "k1", None) = StrV(<<"a">>)
    /\ pop["c1"].wait = -1 /\ pop["c1"].pc = "sleep"
    /\ calls["c1"] = 2
    /\ result["c1"].kind = "returned"
    /\ DictGet(result["c1"].response, "error", "") = MsgNotList

(***************************************************************************)
(* Claims about concurrent keystore requests, checked under SpecAtomic.    *)
(***************************************************************************)
\* the answers to requests of action a, and the requests of action a that
\* are still on their way to the coordinator
AnswersTo(a) == { x \in answers : x.request["action"] = a }
Unhandled(a) == { msg \in produce : msg.request["action"] = a }

\* C20: the answers to the inc(k1, 1) requests handled so far carry the
\* values 1..N, one each, N being their number, and k1 holds N; the values
\* of the push requests handled so far are all in the list of k2, once each.
C20_NoLostUpdate ==
    /\ LET n == Cardinality(AnswersTo("inc"))
       IN  /\ { x.response["data"] : x \in AnswersTo("inc") } = { IntV(i) : i \in 1..n }
           /\ \A x, y \in AnswersTo("inc") : x.response["data"] = y.response["data"] => x = y
           /\ n > 0 => DictGet(keystore, "k1", None) = IntV(n)
           /\ n = 0 => "k1" \notin DOMAIN keystore
    /\ LET pushed == { x.request["data"] : x \in AnswersTo("push") }
       IN  pushed # {} =>
              LET stored == DictGet(keystore, "k2", None)
              IN  /\ IsList(stored)
                  /\ Len(stored.v) = Cardinality(AnswersTo("push"))
                  /\ { stored.v[i] : i \in 1..Len(stored.v) } = pushed

\* C20 witness: the three callers have each sent inc(k1, 1), all three have
\* been handled, the answers carry 1, 2 and 3 and k1 holds 3
C20_Witness ==
    /\ Cardinality(AnswersTo("inc")) = 3
    /\ { x.rid[1] : x \in AnswersTo("inc") } = Callers
    /\ Unhandled("inc") = {}
    /\ keystore["k1"] = IntV(3)

(***************************************************************************)
(* Claims about the coordinator's lock, checked under SpecLock.            *)
(***************************************************************************)
\* C21: at most one greenlet is between the start of handling a message (or
\* of on_test_stop) and the end of its with-block, reply sent, and it is the
\* one that holds the producer lock; the coordinator's state changes only in
\* a step of that greenlet.
C21_OneAtATime ==
    /\ [](/\ Cardinality({ t \in Threads : InWithBlock(t) }) <= 1
          /\ \A t \in Threads : InWithBlock(t) => producer_semaphore = t)
    /\ [][(<<keystore, scenarios_iteration, has_persisted, persist_file, reply, replies>>'
              # <<keystore, scenarios_iteration, has_persisted, persist_file, reply, replies>>)
          => (/\ producer_semaphore \in Threads
              /\ threads[producer_semaphore].pc = "locked"
              /\ \A t \in Threads \ {producer_semaphore} : ~InWithBlock(t) /\ threads'[t] = threads[t])]_vars

\* C21 witness: h1 has sent its reply and still holds the lock, while the
\* message of h2 and the test_stop event wait for it; a counter is above 0
C21_Witness ==
    /\ threads["h1"].pc = "done"
    /\ threads["h2"].pc = "arrived"
    /\ threads["t"].pc = "arrived"
    /\ producer_semaphore = "h1"
    /\ replies > 0
    /\ \E sc \in DOMAIN scenarios_iteration : scenarios_iteration[sc] > 0

\* the action each operation puts in its request
ActionOf ==
    ("keystore_get" :> "get") @@ ("keystore_set" :> "set") @@ ("keystore_inc" :> "inc")
    @@ ("keystore_push" :> "push") @@ ("keystore_del" :> "del")

\* message m is the request of the operation caller c has just called
IsRequestOf(m, c) ==
    /\ m.type = "produce_testdata"
    /\ m.uid = Uid[c] /\ m.cid = ClientId[c]
    /\ DictGet(m.request, "message", "") = "keystore"
    /\ DictGet(m.request, "identifier", "") = IdentifierOf[c]
    /\ DictGet(m.request, "action", "") = ActionOf[operation'[c].name]
    /\ DictGet(m.request, "key", "") = operation'[c].key

\* C26: a call of keystore_get, keystore_set, keystore_inc, keystore_push or
\* keystore_del sends one 'produce_testdata' message, of kind 'keystore', with
\* the caller's scenario identifier, the action and the key of the call, the
\* caller's uid and its process's client id; nothing else sends a request.
C26_OneRequestPerCall ==
    [][/\ \A c \in Callers :
            calls'[c] # calls[c]
               => /\ calls'[c] = calls[c] + 1
                  /\ operation'[c].name \in DOMAIN ActionOf
                  /\ \E m \in produce' \ produce :
                        produce' = produce \cup {m} /\ IsRequestOf(m, c)
       /\ (calls' = calls) => (produce' \subseteq produce /\ operation' = operation)]_vars

\* C26 witness: c1, c2 and c3 have called keystore_del, keystore_get and
\* keystore_set, and the three requests are on their way
C26_Witness ==
    /\ operation["c1"].name = "keystore_del"
    /\ operation["c2"].name = "keystore_get"
    /\ operation["c3"].name = "keystore_set"
    /\ Cardinality(produce) = 3

(***************************************************************************)
(* Claims about KeystoreTask, checked under SpecTask.                      *)
(***************************************************************************)
\* C29: a task has fired a KEYS entry only if its action is 'get', it has no
\* default_value and keystore_get returned no value.
C29_KeysEntryOnlyForGet ==
    \A c \in TaskCallers :
        tasks[c].fired > 0
           => /\ tasks[c].action = "get"
              /\ IsNone(tasks[c].default_value)
              /\ IsNone(tasks[c].seen)

\* what a 'get' task with a default_value that has returned has done
GetWithDefaultReturned(c) ==
    (tasks[c].action = "get" /\ ~IsNone(tasks[c].default_value) /\ tasks[c].outcome = "done")
       => IF tasks[c].existed
          THEN /\ tasks[c].called = <<"get">>
               /\ tasks[c].variable = tasks[c].seen /\ ~IsNone(tasks[c].seen)
          ELSE /\ tasks[c].called = <<"get", "set">>
               /\ tasks[c].variable = tasks[c].default_value

\* C30: a 'get' task with a default_value that has returned: when the key
\* was not in the keystore it has called keystore_get and keystore_set and
\* the variable holds default_value; when the key was there it has called
\* keystore_get only and the variable holds the value that was stored.  The
\* step in which the task stores its default leaves default_value under the
\* key, and no other step of a 'get' task changes the keystore.
C30_GetWithDefault ==
    /\ [](\A c \in TaskCallers : GetWithDefaultReturned(c))
    /\ [][\A c \in TaskCallers :
             (tasks'[c] # tasks[c] /\ tasks'[c].action = "get")
                => IF tasks[c].pc = "default"
                   THEN DictGet(keystore', tasks[c].key, None) = tasks[c].default_value
                   ELSE keystore' = keystore]_vars

\* C30 witness: c1 found k1 missing and stored the default, then c3 ran the
\* same task and got the stored value without writing
C30_Witness ==
    /\ tasks["c1"].action = "get" /\ tasks["c1"].outcome = "done"
    /\ tasks["c1"].called = <<"get", "set">> /\ tasks["c1"].variable = StrV(<<"d">>)
    /\ tasks["c3"].action = "get" /\ tasks["c3"].outcome = "done"
    /\ ~IsNone(tasks["c3"].default_value)
    /\ tasks["c3"].existed /\ tasks["c3"].called = <<"get">>
    /\ DictGet(keystore, "k1", None) = StrV(<<"d">>)

\* C37: the keystore_set of a 'get' task's default overwrites no value: if
\* the key is in the keystore when the default is stored, its value stays.
C37_DefaultOverwritesNothing ==
    [][\A c \in TaskCallers :
          (tasks[c].pc = "default" /\ tasks'[c].pc # "default" /\ tasks[c].key \in DOMAIN keystore)
             => keystore'[tasks[c].key] = keystore[tasks[c].key]]_vars

(***************************************************************************)
(* Claims about the two semaphores, checked under SpecLocal.               *)
(***************************************************************************)
\* a caller of the process is inside _request and holds TestdataConsumer.semaphore
ConsumerLockHeld == \E c \in LocalCallers : pc[c] = "waiting" /\ semaphore[ClientId[c]] = c

\* C38: the consumer's and the producer's semaphore are two locks: while a
\* caller of the same process is blocked in _request holding the consumer's,
\* handle_request enters its with-block whenever the producer's is free; and
\* with the coordinator's greenlets running, every call of _request ends.
C38_TwoLocks ==
    /\ [](\A h \in Handlers :
             (ConsumerLockHeld /\ threads[h].pc = "arrived" /\ producer_semaphore = "free")
                => ENABLED Acquire(h))
    /\ \A c \in LocalCallers : (pc[c] = "waiting") ~> (pc[c] = "idle")

\* C38 witness: c1 is blocked in _request holding the consumer's semaphore
\* while a greenlet holding the producer's has handled its request and sent
\* the reply
C38_Witness ==
    /\ pc["c1"] = "waiting" /\ semaphore[ClientId["c1"]] = "c1"
    /\ \E h \in Handlers :
          /\ producer_semaphore = h
          /\ threads[h].pc = "done"
          /\ threads[h].caller.rid = <<"c1", calls["c1"]>>
          /\ \E msg \in consume : msg.rid = <<"c1", calls["c1"]>>

(***************************************************************************)
(* Claims about the registry of pending calls, checked under SpecSend.     *)
(***************************************************************************)
\* a call of _request by c registers its AsyncResult
Registers(c) == calls'[c] = calls[c] + 1

\* C39: the registry of a process never holds more than one entry, and a
\* call of _request never finds an entry under its own uid when it registers
\* (the "already waiting" warning is never logged).
C39_AtMostOnePending ==
    /\ [](\A w \in Workers : Cardinality(DOMAIN responses[w]) <= 1)
    /\ [][\A c \in Callers : Registers(c) => Uid[c] \notin DOMAIN responses[ClientId[c]]]_vars

(***************************************************************************)
(* Claims about UntilRequestTask, checked under SpecUntil.                 *)
(***************************************************************************)
\* c is executing or has executed the task
InUntil(c) == tasks[c].action = "until"

\* the step ends an execution of the task by c
EndsExecution(c) == tasks'[c] # tasks[c] /\ tasks'[c].pc = "ended"

\* the step is a pass of the loop by c
Passes(c) == tasks[c].pc = "loop" /\ tasks'[c].requests = tasks[c].requests + 1

\* never more than retries requests, and no pass follows one with exactly one match
AttemptsBounded ==
    \A c \in TaskCallers :
       InUntil(c) => /\ tasks[c].requests <= tasks[c].retries
                     /\ (tasks[c].pc = "loop" /\ tasks[c].requests > 0) => tasks[c].number_of_matches # 1

\* the execution of c that ends fired one event, without exception exactly
\* after one match, and raised the configured failure exception with it
EndsWithOneEvent(c) ==
    /\ tasks'[c].fired = 1
    /\ tasks'[c].event_exception = NoException <=> tasks'[c].number_of_matches = 1
    /\ (tasks'[c].event_exception # NoException /\ tasks'[c].failure_exception # NoException)
          => tasks'[c].outcome = tasks'[c].failure_exception
    /\ (tasks'[c].event_exception = NoException \/ tasks'[c].failure_exception = NoException)
          => tasks'[c].outcome = "none"

\* C40 (as claimed): the task makes at most retries requests, stops at the
\* first with exactly one match, and every execution fires exactly one UNTL
\* event, without exception exactly when the last attempt had one match, and
\* raises the configured failure exception when the event has an exception.
C40_OneEventPerExecution ==
    /\ []AttemptsBounded
    /\ [][\A c \in TaskCallers :
             /\ (Passes(c) /\ tasks'[c].number_of_matches = 1) => tasks'[c].pc = "ended"
             /\ EndsExecution(c) => EndsWithOneEvent(c)]_vars

\* C40 (amended): as claimed for every execution whose rendered condition is
\* a valid expression; one whose condition is not valid makes no request,
\* fires no event and ends with a RuntimeError.
C40_OneEventWhenValid ==
    /\ []AttemptsBounded
    /\ [][\A c \in TaskCallers :
             /\ (Passes(c) /\ tasks'[c].number_of_matches = 1) => tasks'[c].pc = "ended"
             /\ (EndsExecution(c) /\ tasks'[c].valid) => EndsWithOneEvent(c)
             /\ (EndsExecution(c) /\ ~tasks'[c].valid)
                   => /\ tasks'[c].requests = 0 /\ tasks'[c].fired = 0
                      /\ tasks'[c].outcome = "RuntimeError"]_vars

\* C40 witness: an execution with two retries has ended; its first request
\* raised, its second had exactly one match, and its one event carried no
\* exception
C40_Witness ==
    /\ InUntil("c1")
    /\ tasks["c1"].pc = "ended" /\ tasks["c1"].retries = 2 /\ tasks["c1"].requests = 2
    /\ tasks["c1"].exception = "StopUser" /\ tasks["c1"].number_of_matches = 1
    /\ tasks["c1"].fired = 1 /\ tasks["c1"].event_exception = NoException

====
